---- MODULE Spec2Model ----
(***************************************************************************)
(* Replenishment, assembly-feasibility, transfer and purchase-order        *)
(* quantity engine of the DBI stock orders manager.                        *)
(*                                                                         *)
(* Tables (pandas DataFrames) are sequences of records, one per row.       *)
(* Fractional quantities are exact rationals: sales velocities are stored  *)
(* as numerators over Scale = 6 * 30, purchase-order velocities as         *)
(* numerators over PoScale.                                                *)
(***************************************************************************)
EXTENDS Integers, Sequences, FiniteSets, TLC

VARIABLES
    bom_df,                    \* BOM Report
    inventory_df,              \* Inventory List
    availability_df,           \* Availability Report
    sales_df,                  \* By Products - Quantity
    profit_df,                 \* By Products - Profit
    sales_velocity_df,         \* st.session_state.sales_velocity_df
    replenish_df,              \* st.session_state.replenish_df_nc / _ca
    assembly_analysis_results, \* st.session_state.assembly_analysis_results_nc / _ca
    transfer_recommendations,  \* st.session_state.transfer_recommendations_nc / _ca
    generated,                 \* warehouses whose session results are not None
    abc_analysis,              \* st.session_state.abc_analysis
    report_cache,              \* st.session_state['nc_report_cache'] / ['ca_report_cache']
    position_call,             \* arguments of a calculate_inventory_position call
    position,                  \* its returned dictionary
    df,                        \* the merged purchase-order table
    po_stage,                  \* how far the purchase-order pipeline has run
    excluded_suppliers,        \* st.session_state.excluded_suppliers
    po_data,                   \* the purchase-order lines of generate_po_csv
    uploads,                   \* the files of the Flask service's UPLOAD_FOLDER
    outputs,                   \* the purchase_order_<location>.csv files it wrote
    requests,                  \* the service's requests: position, form data, response
    dataframes,                \* the names (keys) of st.session_state.dataframes
    replenishment_df,          \* Replenishment Report - NC / - CA
    sale_df,                   \* By Products - Sale
    cogs_df,                   \* By Products - COGS
    confirm_clear,             \* st.session_state.confirm_clear
    last_click                 \* the button clicked in the previous run of the script

vars == <<bom_df, inventory_df, availability_df, sales_df, profit_df, sales_velocity_df,
          replenish_df, assembly_analysis_results, transfer_recommendations,
          generated, abc_analysis, report_cache, position_call, position, df, po_stage,
          excluded_suppliers, po_data, uploads, outputs, requests, dataframes,
          replenishment_df, sale_df, cogs_df, confirm_clear, last_click>>

assemblyVars == <<bom_df, inventory_df, availability_df, sales_df, profit_df,
                  sales_velocity_df, replenish_df, assembly_analysis_results,
                  transfer_recommendations, generated, abc_analysis, report_cache>>
positionVars == <<position_call, position>>
poVars == <<df, po_stage, excluded_suppliers, po_data>>
serviceVars == <<uploads, outputs, requests>>
sessionVars == <<dataframes, replenishment_df, sale_df, cogs_df>>
supplierVars == <<confirm_clear, last_click>>
appVars == <<serviceVars, sessionVars, supplierVars>>
engineVars == <<assemblyVars, positionVars, poVars>>

-----------------------------------------------------------------------------
(* Bounds of the model *)

MaxAvailRows == 2
MaxInvRows == 2
MaxBomRows == 2
MaxTransferRows == 2
MaxPoRows == 1
MaxCsvRows == 2
MaxProfitRows == 3
MaxSalesRows == 2
MaxRequests == 2

-----------------------------------------------------------------------------
(* Program constants *)

SalesMonths == 6
DaysPerMonth == 30
Scale == SalesMonths * DaysPerMonth
days_of_stock == 30
MinAssemblyQty == 2
MinReasonableQty == 10
ReasonableMonths == 3
absolute_max == 1000
TransferThreshold == 20
LeadTimeBuffer == 3

Warehouses == {"NC", "CA"}

-----------------------------------------------------------------------------
(* Generic helpers *)

Max2(a, b) == IF a >= b THEN a ELSE b
Min2(a, b) == IF a <= b THEN a ELSE b

\* math.ceil(n / d) for d > 0
Ceil(n, d) == -((-n) \div d)

SeqsUpTo(S, n) == UNION {[1..k -> S] : k \in 0..n}

RECURSIVE SumSeq(_)
SumSeq(s) == IF s = <<>> THEN 0 ELSE Head(s) + SumSeq(Tail(s))

MapSeq(s, F(_)) == [i \in 1..Len(s) |-> F(s[i])]

\* A spreadsheet cell holding a SKU: an integer, a text or a float cell.
SkuCell(t, s) == [t |-> t, s |-> s]
IntSku(s) == SkuCell("int", s)
StrSku(s) == SkuCell("str", s)
FloatSku(s) == SkuCell("float", s)

\* .astype(str) / str() of a SKU cell: 100 -> '100', '100' -> '100', 100.0 -> '100.0'
astype_str(c) == IF c.t = "float" THEN c.s \o ".0" ELSE c.s

\* str.upper() on the characters the flag columns use
UpperChar(c) ==
    CASE c = "y" -> "Y"
      [] c = "e" -> "E"
      [] c = "s" -> "S"
      [] c = "n" -> "N"
      [] c = "o" -> "O"
      [] c = "a" -> "A"
      [] OTHER -> c

str_upper(s) == [i \in 1..Len(s) |-> UpperChar(s[i])]

startswith(s, p) == Len(s) >= Len(p) /\ SubSeq(s, 1, Len(p)) = p

endswith(s, p) == Len(s) >= Len(p) /\ SubSeq(s, Len(s) - Len(p) + 1, Len(s)) = p

\* str() of a SKU cell whose text is a character sequence
astype_chars(c) == IF c.t = "float" THEN c.s \o <<".", "0">> ELSE c.s

\* column.astype(str): every cell becomes a text cell
column_astype_str(table, column) ==
    [i \in 1..Len(table) |->
        [c \in {column} |-> StrSku(astype_chars(table[i][column]))] @@ table[i]]

\* 'x' in name
contains(name, x) ==
    \E i \in 0..(Len(name) - Len(x)) : SubSeq(name, i + 1, i + Len(x)) = x

\* pandas .unique(): first occurrences, in order
RECURSIVE unique(_)
unique(s) ==
    IF s = <<>> THEN <<>>
    ELSE LET init == unique(SubSeq(s, 1, Len(s) - 1))
             last == s[Len(s)]
         IN IF \E i \in 1..Len(init) : init[i] = last THEN init ELSE Append(init, last)

\* The three locations of a warehouse
WarehouseLocations(warehouse) ==
    IF warehouse = "NC" THEN {"NC - Main", "NC - Armory", "NC - FFL"}
    ELSE {"CA - Main", "CA - Armory", "CA - FFL"}

-----------------------------------------------------------------------------
(* calculate_inventory_position *)

ZeroPosition == [on_hand |-> 0, on_order |-> 0, in_transit |-> 0, total_available |-> 0]

calculate_inventory_position_mut_anyloc(availability, sku, locations) ==
    LET sku_data == SelectSeq(availability, LAMBDA r : astype_str(r.SKU) = sku)
        on_hand == SumSeq(MapSeq(sku_data, LAMBDA r : r.OnHand))
        on_order == SumSeq(MapSeq(sku_data, LAMBDA r : r.OnOrder))
        in_transit == SumSeq(MapSeq(sku_data, LAMBDA r : r.InTransit))
    IN [on_hand |-> on_hand, on_order |-> on_order, in_transit |-> in_transit,
        total_available |-> on_hand + on_order + in_transit]

calculate_inventory_position(availability, sku, locations) ==
    IF Len(availability) = 0 THEN ZeroPosition
    ELSE
    LET sku_data == SelectSeq(availability, LAMBDA r : astype_str(r.SKU) = sku)
    IN IF Len(sku_data) = 0 THEN ZeroPosition
       ELSE
       LET location_data == SelectSeq(sku_data, LAMBDA r : r.Location \in locations)
           on_hand == SumSeq(MapSeq(location_data, LAMBDA r : r.OnHand))
           on_order == SumSeq(MapSeq(location_data, LAMBDA r : r.OnOrder))
           in_transit == SumSeq(MapSeq(location_data, LAMBDA r : r.InTransit))
       IN [on_hand |-> on_hand, on_order |-> on_order, in_transit |-> in_transit,
           total_available |-> on_hand + on_order + in_transit]

-----------------------------------------------------------------------------
(* calculate_sales_velocity *)

TotalPrefix == <<"T", "o", "t", "a", "l">>
AveragePrefix == <<"A", "v", "e", "r", "a", "g", "e">>

\* A cell of a month column: <<>> when missing, <<n>> otherwise (sum skips NaN)
CellValue(cell) == IF cell = <<>> THEN 0 ELSE cell[1]

total_6_months_mut_allcolumns(columns, row) ==
    SumSeq([i \in 1..Len(columns) |-> CellValue(row.vals[i])])

\* Sum of the row's cells under the sales columns
total_6_months(columns, row) ==
    SumSeq([i \in 1..Len(columns) |->
               IF ~startswith(columns[i], TotalPrefix) /\ ~startswith(columns[i], AveragePrefix)
               THEN CellValue(row.vals[i]) ELSE 0])

\* avg_daily_sales and avg_monthly_sales are numerators over Scale
calculate_sales_velocity(sales) ==
    IF Len(sales.rows) = 0 THEN <<>>
    ELSE [i \in 1..Len(sales.rows) |->
            LET total == total_6_months(sales.columns, sales.rows[i])
            IN [SKU |-> astype_str(sales.rows[i].SKU),
                avg_daily_sales |-> ((total * Scale) \div SalesMonths) \div DaysPerMonth,
                avg_monthly_sales |-> (total * Scale) \div SalesMonths]]

-----------------------------------------------------------------------------
(* get_replenish_skus *)

ExcludedSkus == {"2444", "4300", "3818", "2582"}

YES == <<"Y", "E", "S">>
NO == <<"N", "O">>

eligible_skus_filter_mut_noexclusion(row) ==
    /\ str_upper(row.AssemblyBOM) = YES
    /\ str_upper(row.AutoAssemble) = NO
    /\ str_upper(row.AutoDisassemble) = NO

eligible_skus_filter(row) ==
    /\ str_upper(row.AssemblyBOM) = YES
    /\ str_upper(row.AutoAssemble) = NO
    /\ str_upper(row.AutoDisassemble) = NO
    /\ astype_str(row.ProductCode) \notin ExcludedSkus

eligible_skus(inventory) ==
    unique(MapSeq(SelectSeq(inventory, eligible_skus_filter),
                  LAMBDA r : astype_str(r.ProductCode)))

\* Velocity of a SKU: first matching row, 0 when the SKU is missing
VelocityOf(velocity, sku) ==
    LET sales_data == SelectSeq(velocity, LAMBDA r : r.SKU = sku)
    IN IF Len(sales_data) > 0
       THEN [avg_daily_sales |-> sales_data[1].avg_daily_sales,
             avg_monthly_sales |-> sales_data[1].avg_monthly_sales]
       ELSE [avg_daily_sales |-> 0, avg_monthly_sales |-> 0]

needs_replenishment_mut_once(inv_position, avg_monthly_sales) ==
    Scale * inv_position.total_available < avg_monthly_sales

needs_replenishment(inv_position, avg_monthly_sales) ==
    Scale * (inv_position.total_available + inv_position.on_order) < avg_monthly_sales

\* max(0, target_inventory - total_available), a numerator over Scale
replenishment_qty(inv_position, avg_daily_sales) ==
    Max2(0, avg_daily_sales * days_of_stock - Scale * inv_position.total_available)

qty_for_assembly_mut_floor(avg_monthly_sales, available_in_warehouse) ==
    LET base_calculation == avg_monthly_sales - Scale * available_in_warehouse
        base_qty == IF base_calculation > 0
                    THEN Max2(MinAssemblyQty, base_calculation \div Scale)
                    ELSE MinAssemblyQty
        max_reasonable_qty ==
            Max2(MinReasonableQty, Ceil(avg_monthly_sales * ReasonableMonths, Scale))
    IN Min2(Min2(base_qty, max_reasonable_qty), absolute_max)

qty_for_assembly_mut_reset(avg_monthly_sales, available_in_warehouse) ==
    LET base_calculation == avg_monthly_sales - Scale * available_in_warehouse
        base_qty == IF base_calculation > 0
                    THEN Max2(MinAssemblyQty, Ceil(base_calculation, Scale))
                    ELSE MinAssemblyQty
        max_reasonable_qty ==
            Max2(MinReasonableQty, Ceil(avg_monthly_sales * ReasonableMonths, Scale))
        qty == Min2(base_qty, max_reasonable_qty)
    IN IF qty > absolute_max THEN MinAssemblyQty ELSE qty

qty_for_assembly(avg_monthly_sales, available_in_warehouse) ==
    LET base_calculation == avg_monthly_sales - Scale * available_in_warehouse
        base_qty == IF base_calculation > 0
                    THEN Max2(MinAssemblyQty, Ceil(base_calculation, Scale))
                    ELSE MinAssemblyQty
        max_reasonable_qty ==
            Max2(MinReasonableQty, Ceil(avg_monthly_sales * ReasonableMonths, Scale))
    IN Min2(Min2(base_qty, max_reasonable_qty), absolute_max)

\* One iteration of the loop over eligible SKUs: <<>> or the appended row
ReplenishRow(sku, availability, velocity, warehouse) ==
    LET inv_position ==
            calculate_inventory_position(availability, sku, WarehouseLocations(warehouse))
        v == VelocityOf(velocity, sku)
        target_inventory == v.avg_daily_sales * days_of_stock
        available_in_warehouse == inv_position.total_available
    IN IF /\ needs_replenishment(inv_position, v.avg_monthly_sales)
          /\ replenishment_qty(inv_position, v.avg_daily_sales) > 0
       THEN <<[SKU |-> sku,
               avg_daily_sales |-> v.avg_daily_sales,
               avg_monthly_sales |-> v.avg_monthly_sales,
               available_in_warehouse |-> available_in_warehouse,
               warehouse |-> warehouse,
               on_order |-> inv_position.on_order,
               target_inventory |-> target_inventory,
               qty_for_assembly |->
                   qty_for_assembly(v.avg_monthly_sales, available_in_warehouse)]>>
       ELSE <<>>

RECURSIVE ReplenishLoop(_, _, _, _)
ReplenishLoop(skus, availability, velocity, warehouse) ==
    IF skus = <<>> THEN <<>>
    ELSE ReplenishLoop(SubSeq(skus, 1, Len(skus) - 1), availability, velocity, warehouse)
         \o ReplenishRow(skus[Len(skus)], availability, velocity, warehouse)

get_replenish_skus(bom, inventory, availability, velocity, warehouse) ==
    IF Len(bom) = 0 \/ Len(inventory) = 0 \/ Len(availability) = 0 \/ Len(velocity) = 0
    THEN <<>>
    ELSE ReplenishLoop(eligible_skus(inventory), availability, velocity, warehouse)

-----------------------------------------------------------------------------
(* analyze_assembly_status *)

component_status_mut_strict(available, total_component_needed) ==
    IF available > total_component_needed THEN "Ready" ELSE "Shortage"

component_status(available, total_component_needed) ==
    IF available >= total_component_needed THEN "Ready" ELSE "Shortage"

\* One iteration of the loop over the assembly's BOM rows
ComponentAnalysis(component, qty_needed, availability, warehouse) ==
    LET component_sku == astype_str(component.Component_SKU)
        qty_per_assembly == component.Quantity
        total_component_needed == qty_per_assembly * qty_needed
        component_inv ==
            calculate_inventory_position(availability, component_sku,
                                         WarehouseLocations(warehouse))
    IN [component_sku |-> component_sku,
        qty_per_assembly |-> qty_per_assembly,
        total_needed |-> total_component_needed,
        available |-> component_inv.total_available,
        shortage |-> Max2(0, total_component_needed - component_inv.total_available),
        status |-> component_status(component_inv.total_available, total_component_needed)]

assembly_feasible_mut_last(component_analysis) ==
    IF component_analysis = <<>> THEN TRUE
    ELSE component_analysis[Len(component_analysis)].status = "Ready"

\* assembly_feasible after the loop: starts True, a Shortage sets it False
RECURSIVE assembly_feasible(_)
assembly_feasible(component_analysis) ==
    IF component_analysis = <<>> THEN TRUE
    ELSE LET n == Len(component_analysis)
             before == assembly_feasible(SubSeq(component_analysis, 1, n - 1))
         IN IF component_analysis[n].status = "Shortage" THEN FALSE ELSE before

\* One iteration of the loop over the candidates: <<>> (continue) or the appended entry
AssemblyEntry(bom, availability, replenish_row, warehouse) ==
    LET assembly_sku == replenish_row.SKU
        qty_needed == replenish_row.qty_for_assembly
        assembly_components ==
            SelectSeq(bom, LAMBDA b : astype_str(b.Product_SKU) = assembly_sku)
        component_analysis ==
            MapSeq(assembly_components,
                   LAMBDA c : ComponentAnalysis(c, qty_needed, availability, warehouse))
    IN IF Len(assembly_components) = 0 THEN <<>>
       ELSE <<[assembly_sku |-> assembly_sku,
               qty_for_assembly |-> qty_needed,
               assembly_status |-> IF assembly_feasible(component_analysis)
                                   THEN "Ready for Production" ELSE "Cannot Assemble",
               avg_daily_sales |-> replenish_row.avg_daily_sales,
               avg_monthly_sales |-> replenish_row.avg_monthly_sales,
               available_in_warehouse |-> replenish_row.available_in_warehouse,
               warehouse |-> replenish_row.warehouse,
               components |-> component_analysis,
               total_components |-> Len(component_analysis),
               ready_components |->
                   Len(SelectSeq(component_analysis, LAMBDA c : c.status = "Ready"))]>>

RECURSIVE AnalysisLoop(_, _, _, _)
AnalysisLoop(bom, availability, replenish, warehouse) ==
    IF replenish = <<>> THEN <<>>
    ELSE AnalysisLoop(bom, availability, SubSeq(replenish, 1, Len(replenish) - 1), warehouse)
         \o AssemblyEntry(bom, availability, replenish[Len(replenish)], warehouse)

analyze_assembly_status(bom, availability, replenish, warehouse) ==
    IF Len(bom) = 0 \/ Len(availability) = 0 \/ Len(replenish) = 0 THEN <<>>
    ELSE AnalysisLoop(bom, availability, replenish, warehouse)

-----------------------------------------------------------------------------
(* generate_transfer_recommendations *)

bom_component_skus_mut_products(bom) ==
    {astype_str(bom[i].Product_SKU) : i \in 1..Len(bom)}

bom_component_skus(bom) ==
    {astype_str(bom[i].Component_SKU) : i \in 1..Len(bom)}

armory_location(warehouse) == IF warehouse = "NC" THEN "NC - Armory" ELSE "CA - Armory"
main_location(warehouse) == IF warehouse = "NC" THEN "NC - Main" ELSE "CA - Main"

transfer_qty_mut_max(on_hand_armory, on_hand_main) ==
    Max2(on_hand_armory - TransferThreshold, TransferThreshold - on_hand_main)

transfer_qty(on_hand_armory, on_hand_main) ==
    Min2(on_hand_armory - TransferThreshold, TransferThreshold - on_hand_main)

\* One iteration of the loop over the Armory records: <<>> or the appended recommendation
TransferRow(item, availability, bom, warehouse) ==
    LET sku == astype_str(item.SKU)
        on_hand_armory == item.OnHand
        main_inv == calculate_inventory_position(availability, sku,
                                                 {main_location(warehouse)})
    IN IF /\ on_hand_armory > TransferThreshold
          /\ sku \notin bom_component_skus(bom)
          /\ main_inv.on_hand < TransferThreshold
          /\ transfer_qty(on_hand_armory, main_inv.on_hand) > 0
       THEN <<[sku |-> sku,
               from_location |-> armory_location(warehouse),
               to_location |-> main_location(warehouse),
               available_armory |-> on_hand_armory,
               current_main |-> main_inv.on_hand,
               recommended_transfer |-> transfer_qty(on_hand_armory, main_inv.on_hand)]>>
       ELSE <<>>

RECURSIVE TransferLoop(_, _, _, _)
TransferLoop(armory_data, availability, bom, warehouse) ==
    IF armory_data = <<>> THEN <<>>
    ELSE TransferLoop(SubSeq(armory_data, 1, Len(armory_data) - 1), availability, bom,
                      warehouse)
         \o TransferRow(armory_data[Len(armory_data)], availability, bom, warehouse)

generate_transfer_recommendations(availability, bom, warehouse) ==
    IF Len(availability) = 0 THEN <<>>
    ELSE TransferLoop(SelectSeq(availability,
                                LAMBDA r : r.Location = armory_location(warehouse)),
                      availability, bom, warehouse)

-----------------------------------------------------------------------------
(* calculate_abc_analysis *)

\* The orders sort_values(ascending=False) can leave the rows in: rows of equal key
\* in any order
descending_orders(keys) ==
    {order \in [1..Len(keys) -> 1..Len(keys)] :
        /\ \A i, j \in 1..Len(keys) : order[i] = order[j] => i = j
        /\ \A i \in 1..Len(keys) - 1 : keys[order[i]] >= keys[order[i + 1]]}

\* Sum of the row's cells under every column but the first
total_profit(row) == SumSeq(MapSeq(row.vals, CellValue))

\* pandas cumsum() up to row k
cumulative_profit(totals, k) == SumSeq(SubSeq(totals, 1, k))

\* A float quotient: a fraction n / d with d > 0, or inf, -inf, NaN when the divisor is 0
Fraction(n, d) == [kind |-> "num", n |-> n, d |-> d]
NanFraction == [kind |-> "nan", n |-> 0, d |-> 1]
InfFraction == [kind |-> "inf", n |-> 1, d |-> 1]
NegInfFraction == [kind |-> "-inf", n |-> 0 - 1, d |-> 1]

divide_mut_guarded(x, y) ==
    IF y = 0 THEN Fraction(0, 1)
    ELSE IF y < 0 THEN Fraction(0 - x, 0 - y)
    ELSE Fraction(x, y)

\* Series / scalar: a zero divisor gives inf, -inf or NaN and raises nothing
divide(x, y) ==
    IF y = 0
    THEN IF x > 0 THEN InfFraction ELSE IF x < 0 THEN NegInfFraction ELSE NanFraction
    ELSE IF y < 0 THEN Fraction(0 - x, 0 - y)
    ELSE Fraction(x, y)

\* Comparisons of a quotient with k hundredths
quotient_le(q, k) == q.kind = "-inf" \/ (q.kind = "num" /\ q.n * 100 <= k * q.d)
quotient_gt(q, k) == q.kind = "inf" \/ (q.kind = "num" /\ q.n * 100 > k * q.d)

abc_category_mut_strict(cumulative_percentage) ==
    IF quotient_gt(cumulative_percentage, 70) /\ quotient_le(cumulative_percentage, 90)
    THEN "B"
    ELSE IF /\ quotient_le(cumulative_percentage, 70)
            /\ cumulative_percentage.n * 100 /= 70 * cumulative_percentage.d
    THEN "A"
    ELSE "C"

abc_category_mut_nocap(cumulative_percentage) ==
    IF quotient_gt(cumulative_percentage, 70) THEN "B"
    ELSE IF quotient_le(cumulative_percentage, 70) THEN "A"
    ELSE "C"

\* 'C' by default, 'A' up to 0.70, 'B' above 0.70 and up to 0.90
abc_category(cumulative_percentage) ==
    IF quotient_gt(cumulative_percentage, 70) /\ quotient_le(cumulative_percentage, 90)
    THEN "B"
    ELSE IF quotient_le(cumulative_percentage, 70) THEN "A"
    ELSE "C"

\* The result for one of the orders the sort can give
calculate_abc_analysis(profit, order) ==
    IF Len(profit) = 0 THEN <<>>
    ELSE LET totals == [i \in 1..Len(profit) |-> total_profit(profit[order[i]])]
             overall == SumSeq(totals)
         IN [i \in 1..Len(profit) |->
                [SKU |-> astype_str(profit[order[i]].SKU),
                 total_profit |-> totals[i],
                 abc_category |->
                     abc_category(divide(cumulative_profit(totals, i), overall))]]

-----------------------------------------------------------------------------
(* display_warehouse_reports: the session's report cache *)

ready_assemblies(assembly_analysis) ==
    SelectSeq(assembly_analysis, LAMBDA a : a.assembly_status = "Ready for Production")

cannot_assemble(assembly_analysis) ==
    SelectSeq(assembly_analysis, LAMBDA a : a.assembly_status = "Cannot Assemble")

\* The 'Assembly Orders' table: the ready assemblies by descending quantity
assembly_orders(ready, order) ==
    [i \in 1..Len(ready) |->
        [SKU |-> ready[order[i]].assembly_sku,
         Quantity_for_Assembly |-> ready[order[i]].qty_for_assembly,
         Available_in_Warehouse |-> ready[order[i]].available_in_warehouse]]

\* The 'Cannot Assemble' table
cannot_assemble_table(cannot) ==
    [i \in 1..Len(cannot) |->
        [SKU |-> cannot[i].assembly_sku,
         Quantity_Needed |-> cannot[i].qty_for_assembly,
         Available_in_Warehouse |-> cannot[i].available_in_warehouse,
         Components_Ready |-> <<cannot[i].ready_components, cannot[i].total_components>>,
         Missing_Components |->
             Len(SelectSeq(cannot[i].components, LAMBDA c : c.status = "Shortage"))]]

prepared_reports(assembly_analysis, transfers, order) ==
    [assembly_orders |-> assembly_orders(ready_assemblies(assembly_analysis), order),
     cannot_assemble |-> cannot_assemble_table(cannot_assemble(assembly_analysis)),
     transfer_recommendations |-> transfers,
     ready_assemblies |-> ready_assemblies(assembly_analysis),
     cannot_assemble_raw |-> cannot_assemble(assembly_analysis)]

\* The cache entries a call can leave in the session: the entry is prepared only when
\* the key is not in the session yet
display_warehouse_reports(cached, assembly_analysis, transfers) ==
    IF cached /= <<>> THEN {cached}
    ELSE {<<prepared_reports(assembly_analysis, transfers, order)>> :
             order \in descending_orders(
                 MapSeq(ready_assemblies(assembly_analysis),
                        LAMBDA a : a.qty_for_assembly))}

\* The report section of a warehouse tab: shown once the warehouse has a non-empty analysis
report_section(cached, is_generated, assembly_analysis, transfers) ==
    IF is_generated /\ Len(assembly_analysis) > 0
    THEN display_warehouse_reports(cached, assembly_analysis, transfers)
    ELSE {cached}

-----------------------------------------------------------------------------
(* Input tables the model draws from *)

Jan == <<"J", "a", "n">>
Feb == <<"F", "e", "b">>
Mar == <<"M", "a", "r">>
Apr == <<"A", "p", "r">>
May == <<"M", "a", "y">>
Jun == <<"J", "u", "n">>
TotalHeader == <<"T", "o", "t", "a", "l">>

SalesColumns == <<Jan, Feb, Mar, Apr, May, Jun, TotalHeader>>

\* A sales row whose six months sum to total: one month missing, a Total column
SalesRow(sku, total) ==
    [SKU |-> sku,
     vals |-> <<<<total - 1>>, <<>>, <<1>>, <<0>>, <<0>>, <<0>>, <<total>>>>]

SalesTable(rows) == [columns |-> SalesColumns, rows |-> rows]

AvailRow(sku, location, on_hand, on_order, in_transit) ==
    [SKU |-> sku, Location |-> location, OnHand |-> on_hand, OnOrder |-> on_order,
     InTransit |-> in_transit]

InvRow(sku, assembly_bom, auto_assemble, auto_disassemble) ==
    [ProductCode |-> sku, AssemblyBOM |-> assembly_bom, AutoAssemble |-> auto_assemble,
     AutoDisassemble |-> auto_disassemble]

BomRow(product, component, quantity) ==
    [Product_SKU |-> product, Component_SKU |-> component, Quantity |-> quantity]

EligibleRow(sku) == InvRow(sku, YES, NO, NO)

ProfitRow(sku, vals) == [SKU |-> sku, vals |-> vals]

NoResults == [wh \in Warehouses |-> <<>>]

AssemblyFresh ==
    /\ sales_velocity_df = <<>>
    /\ replenish_df = NoResults
    /\ assembly_analysis_results = NoResults
    /\ transfer_recommendations = NoResults
    /\ generated = {}
    /\ abc_analysis = <<>>
    /\ report_cache = NoResults

AssemblyIdle ==
    /\ bom_df = <<>>
    /\ inventory_df = <<>>
    /\ availability_df = <<>>
    /\ sales_df = SalesTable(<<>>)
    /\ profit_df = <<>>
    /\ AssemblyFresh

PositionIdle ==
    /\ position_call = [sku |-> "", locations |-> {}]
    /\ position = <<>>

PoIdle ==
    /\ df = <<>>
    /\ po_stage = "merged"
    /\ excluded_suppliers = <<>>
    /\ po_data = <<>>

Requests == 1..MaxRequests

UploadedFiles ==
    {"replenishment-Combined NC Warehouses-variants-1.csv",
     "replenishment-Combined CA Warehouses-variants-1.csv",
     "Sales by Product Details Report.xlsx"}

NoRequest ==
    [pc |-> "idle", location |-> "nc", velocity |-> 0, profit |-> 0, response |-> "",
     po |-> <<>>, received |-> <<>>]

ServiceIdle ==
    /\ uploads = [f \in UploadedFiles |-> <<>>]
    /\ outputs = [location \in {"nc", "ca"} |-> <<>>]
    /\ requests = [r \in Requests |-> NoRequest]

\* Names of the session's datasets, as character sequences
AvailabilityReportName == <<"A", "v", "a", "i", "l", "a", "b", "i", "l", "i", "t", "y", " ", "R", "e", "p", "o", "r", "t">>
BomReportName == <<"B", "O", "M", " ", "R", "e", "p", "o", "r", "t">>
InventoryListName == <<"I", "n", "v", "e", "n", "t", "o", "r", "y", " ", "L", "i", "s", "t">>
ReplenishmentReportPrefix == <<"R", "e", "p", "l", "e", "n", "i", "s", "h", "m", "e", "n", "t", " ", "R", "e", "p", "o", "r", "t", " ", "-", " ">>
ByProductsPrefix == <<"B", "y", " ", "P", "r", "o", "d", "u", "c", "t", "s", " ", "-">>
SalesPrefix == <<"S", "a", "l", "e", "s", " ", "-", " ">>
MetricName(metric) ==
    CASE metric = "Sale" -> <<"S", "a", "l", "e">>
      [] metric = "Quantity" -> <<"Q", "u", "a", "n", "t", "i", "t", "y">>
      [] metric = "COGS" -> <<"C", "O", "G", "S">>
      [] metric = "Profit" -> <<"P", "r", "o", "f", "i", "t">>
Metrics == {"Sale", "Quantity", "COGS", "Profit"}
ByProductsName(metric) == ByProductsPrefix \o <<" ">> \o MetricName(metric)
UpperLocation(location) == IF location = "nc" THEN <<"N", "C">> ELSE <<"C", "A">>
ReplenishmentReportName(location) == ReplenishmentReportPrefix \o UpperLocation(location)

NoReports == [location \in {"nc", "ca"} |-> <<>>]

SessionIdle ==
    /\ dataframes = {}
    /\ replenishment_df = NoReports
    /\ sale_df = <<>>
    /\ cogs_df = <<>>

SupplierIdle ==
    /\ confirm_clear = FALSE
    /\ last_click = ""

AppIdle == ServiceIdle /\ SessionIdle /\ SupplierIdle

\* Stock records of assembly 100: quantities around its monthly sales
QuantityTriples ==
    {<<0 - 30, 0, 0>>, <<0, 0, 0>>, <<4, 0, 1>>, <<4, 3, 0>>, <<9, 2, 0>>}

QuantityRows ==
    {AvailRow(IntSku("100"), l, q[1], q[2], q[3]) :
        l \in {"NC - Main", "CA - FFL"}, q \in QuantityTriples}

SalesTotals == {0, 6, 33, 60, 61, 6600, 12000}

QuantitySales ==
    {SalesTable(<<SalesRow(IntSku("999"), 60)>>)}
    \cup {SalesTable(<<SalesRow(IntSku("100"), t)>>) : t \in SalesTotals}

\* Replenishment quantities: one eligible assembly, its stock and sales vary
InitQuantities ==
    /\ bom_df = <<BomRow(IntSku("100"), IntSku("200"), 1)>>
    /\ inventory_df = <<EligibleRow(IntSku("100"))>>
    /\ availability_df \in SeqsUpTo(QuantityRows, MaxAvailRows)
    /\ sales_df \in QuantitySales

Flags == {<<"Y", "E", "S">>, <<"Y", "e", "s">>, <<"N", "O">>, <<"n", "o">>}

FlagTriples ==
    {<<YES, NO, NO>>, <<<<"Y", "e", "s">>, <<"n", "o">>, <<"N", "o">>>>,
     <<NO, NO, NO>>, <<YES, YES, NO>>, <<YES, NO, <<"Y", "e", "s">>>>,
     <<<<"n", "a", "n">>, NO, NO>>}

InventoryRows ==
    {InvRow(c, f[1], f[2], f[3]) :
        c \in {IntSku("100"), StrSku("100"), IntSku("2444"), StrSku("4300")},
        f \in FlagTriples}

\* Eligibility: the Inventory List varies, every SKU sells more than it stocks
InitEligibility ==
    /\ bom_df = <<BomRow(IntSku("100"), IntSku("200"), 1)>>
    /\ inventory_df \in SeqsUpTo(InventoryRows, MaxInvRows)
    /\ availability_df = <<AvailRow(IntSku("100"), "NC - Main", 4, 0, 0)>>
    /\ sales_df = SalesTable(<<SalesRow(IntSku("100"), 60), SalesRow(IntSku("2444"), 60),
                               SalesRow(StrSku("4300"), 60)>>)

BomRows ==
    {BomRow(IntSku(e[1]), IntSku(e[2]), q) :
        e \in {<<"100", "200">>, <<"100", "300">>, <<"200", "300">>}, q \in {1, 2}}

ComponentStock == {0, 6, 12}

\* Assembly feasibility: the BOM and the component stock vary
InitAssembly ==
    /\ bom_df \in SeqsUpTo(BomRows, MaxBomRows)
    /\ inventory_df = <<EligibleRow(IntSku("100")), EligibleRow(IntSku("200"))>>
    /\ \E a \in ComponentStock, b \in ComponentStock :
          availability_df = <<AvailRow(IntSku("100"), "NC - Main", 4, 0, 0),
                              AvailRow(IntSku("200"), "NC - Main", a, 0, 0),
                              AvailRow(IntSku("300"), "NC - Armory", 0, b, 0)>>
    /\ sales_df = SalesTable(<<SalesRow(IntSku("100"), 60), SalesRow(IntSku("200"), 60)>>)

TransferRows ==
    {AvailRow(c, l, h, 0, 0) :
        c \in {IntSku("200"), StrSku("300")},
        l \in {"NC - Armory", "NC - Main", "CA - Armory"},
        h \in {5, 20, 21, 35}}

\* Transfers: the Armory and Main records vary, SKU 200 or 300 is a BOM component
InitTransfer ==
    /\ bom_df \in {<<BomRow(IntSku("100"), IntSku("200"), 1)>>,
                   <<BomRow(IntSku("100"), IntSku("300"), 1)>>}
    /\ inventory_df = <<EligibleRow(IntSku("100"))>>
    /\ availability_df \in SeqsUpTo(TransferRows, MaxTransferRows)
    /\ sales_df = SalesTable(<<SalesRow(IntSku("100"), 60)>>)

-----------------------------------------------------------------------------
(* run_assembly_order_generation: the "Generate Assembly Orders" button *)

GenerateAssemblyOrders(warehouse) ==
    LET velocity == calculate_sales_velocity(sales_df)
        warehouses_to_process == IF warehouse = "All" THEN {"NC", "CA"} ELSE {warehouse}
        replenish(wh) ==
            get_replenish_skus(bom_df, inventory_df, availability_df, velocity, wh)
    IN /\ sales_velocity_df' = velocity
       /\ \E order \in descending_orders(MapSeq(profit_df, total_profit)) :
              abc_analysis' = calculate_abc_analysis(profit_df, order)
       /\ replenish_df' =
              [wh \in Warehouses |->
                  IF wh \in warehouses_to_process THEN replenish(wh) ELSE replenish_df[wh]]
       /\ assembly_analysis_results' =
              [wh \in Warehouses |->
                  IF wh \in warehouses_to_process
                  THEN analyze_assembly_status(bom_df, availability_df, replenish_df'[wh], wh)
                  ELSE assembly_analysis_results[wh]]
       /\ transfer_recommendations' =
              [wh \in Warehouses |->
                  IF wh \in warehouses_to_process
                  THEN generate_transfer_recommendations(availability_df, bom_df, wh)
                  ELSE transfer_recommendations[wh]]
       /\ generated' = generated \cup warehouses_to_process
       /\ \E nc \in report_section(report_cache["NC"], "NC" \in generated',
                                   assembly_analysis_results'["NC"],
                                   transfer_recommendations'["NC"]),
             ca \in report_section(report_cache["CA"], "CA" \in generated',
                                   assembly_analysis_results'["CA"],
                                   transfer_recommendations'["CA"]) :
              report_cache' = [wh \in Warehouses |-> IF wh = "NC" THEN nc ELSE ca]
       /\ UNCHANGED <<bom_df, inventory_df, availability_df, sales_df, profit_df>>
       /\ UNCHANGED positionVars
       /\ UNCHANGED poVars
       /\ UNCHANGED appVars

-----------------------------------------------------------------------------
(* calculate_po_quantity *)

\* Purchase-order velocities and stock targets are numerators over PoScale
PoScale == 10 * 10

NumCell(v) == [kind |-> "num", v |-> v]
NanCell == [kind |-> "nan", v |-> 0]
TextCell == [kind |-> "text", v |-> 0]

\* pd.to_numeric(errors='coerce').fillna(0)
to_numeric_fillna(cell) == IF cell.kind = "num" THEN cell.v ELSE 0

\* int(x) of a numerator over PoScale: truncation towards zero
int_of(x) == IF x >= 0 THEN x \div PoScale ELSE -((-x) \div PoScale)

round_up_mut_always(x) == int_of(x) + 1

\* lambda x: int(x) + 1 if x > int(x) else int(x)
round_up(x) == IF x > int_of(x) * PoScale THEN int_of(x) + 1 ELSE int_of(x)

po_row_mut_nobuffer(row) ==
    LET lead_time == to_numeric_fillna(row.Lead_time)
        DaysOfStock == lead_time
        TargetStock == row.AdjustedSalesVelocity * DaysOfStock
        TotalStock == to_numeric_fillna(row.TotalStock)
        TotalOnOrder == to_numeric_fillna(row.TotalOnOrder)
        quantity == TargetStock - PoScale * TotalStock - PoScale * TotalOnOrder
        clamped == IF quantity < 0 THEN 0 ELSE quantity
    IN [SKU |-> row.SKU,
        AdjustedSalesVelocity |-> row.AdjustedSalesVelocity,
        Lead_time |-> NumCell(lead_time),
        DaysOfStock |-> DaysOfStock,
        TargetStock |-> TargetStock,
        TotalStock |-> NumCell(TotalStock),
        TotalOnOrder |-> NumCell(TotalOnOrder),
        PO_Quantity |-> round_up(clamped)] @@ row

po_row(row) ==
    LET lead_time == to_numeric_fillna(row.Lead_time)
        DaysOfStock == lead_time + LeadTimeBuffer
        TargetStock == row.AdjustedSalesVelocity * DaysOfStock
        TotalStock == to_numeric_fillna(row.TotalStock)
        TotalOnOrder == to_numeric_fillna(row.TotalOnOrder)
        quantity == TargetStock - PoScale * TotalStock - PoScale * TotalOnOrder
        clamped == IF quantity < 0 THEN 0 ELSE quantity
    IN [SKU |-> row.SKU,
        AdjustedSalesVelocity |-> row.AdjustedSalesVelocity,
        Lead_time |-> NumCell(lead_time),
        DaysOfStock |-> DaysOfStock,
        TargetStock |-> TargetStock,
        TotalStock |-> NumCell(TotalStock),
        TotalOnOrder |-> NumCell(TotalOnOrder),
        PO_Quantity |-> round_up(clamped)] @@ row

calculate_po_quantity(table) == MapSeq(table, po_row)

CalculatePoQuantity ==
    /\ po_stage = "adjusted"
    /\ df' = calculate_po_quantity(df)
    /\ po_stage' = "quantity"
    /\ UNCHANGED <<excluded_suppliers, po_data>>
    /\ UNCHANGED assemblyVars
    /\ UNCHANGED positionVars
    /\ UNCHANGED appVars

PoVelocities == {0 - 50, 0, 33, 100, 250}
LeadTimeCells == {NanCell, TextCell, NumCell(0), NumCell(1), NumCell(7)}
StockCells == {NanCell, NumCell(0), NumCell(2), NumCell(10)}
OnOrderCells == {NanCell, NumCell(0), NumCell(3)}

PoRows ==
    {[SKU |-> "100", AdjustedSalesVelocity |-> v, Lead_time |-> l, TotalStock |-> s,
      TotalOnOrder |-> o] :
        v \in PoVelocities, l \in LeadTimeCells, s \in StockCells, o \in OnOrderCells}

\* The merged table after adjust_sales_velocity
InitPo ==
    /\ df \in SeqsUpTo(PoRows, MaxPoRows)
    /\ po_stage = "adjusted"
    /\ excluded_suppliers = <<>>
    /\ po_data = <<>>
    /\ AssemblyIdle
    /\ PositionIdle
    /\ AppIdle

NextPo == CalculatePoQuantity

SpecPo == InitPo /\ [][NextPo]_vars

-----------------------------------------------------------------------------
(* load_excluded_suppliers, calculate_profit_margin, adjust_sales_velocity,
   generate_po_csv and the pipeline of run_po_generation after its merges *)

\* The printable ASCII characters of supplier names and SKUs, in code-point order
CodePoints ==
    <<" ", "!", "#", "$", "%", "&", "'", "(", ")", "*", "+", ",", "-", ".", "/", "0">>
    \o <<"1", "2", "3", "4", "5", "6", "7", "8", "9", ":", ";", "<", "=", ">", "?", "@">>
    \o <<"A", "B", "C", "D", "E", "F", "G", "H", "I", "J", "K", "L", "M", "N", "O", "P">>
    \o <<"Q", "R", "S", "T", "U", "V", "W", "X", "Y", "Z", "[", "]", "^", "_", "a", "b">>
    \o <<"c", "d", "e", "f", "g", "h", "i", "j", "k", "l", "m", "n", "o", "p", "q", "r">>
    \o <<"s", "t", "u", "v", "w", "x", "y", "z", "{", "|", "}", "~">>

ord(c) == CHOOSE i \in 1..Len(CodePoints) : CodePoints[i] = c

\* str.lower() of one character
lower_char(c) ==
    CASE c = "A" -> "a"
      [] c = "B" -> "b"
      [] c = "C" -> "c"
      [] c = "D" -> "d"
      [] c = "E" -> "e"
      [] c = "F" -> "f"
      [] c = "G" -> "g"
      [] c = "H" -> "h"
      [] c = "I" -> "i"
      [] c = "J" -> "j"
      [] c = "K" -> "k"
      [] c = "L" -> "l"
      [] c = "M" -> "m"
      [] c = "N" -> "n"
      [] c = "O" -> "o"
      [] c = "P" -> "p"
      [] c = "Q" -> "q"
      [] c = "R" -> "r"
      [] c = "S" -> "s"
      [] c = "T" -> "t"
      [] c = "U" -> "u"
      [] c = "V" -> "v"
      [] c = "W" -> "w"
      [] c = "X" -> "x"
      [] c = "Y" -> "y"
      [] c = "Z" -> "z"
      [] OTHER -> c

str_lower(s) == [i \in 1..Len(s) |-> lower_char(s[i])]

\* Python's < on two strings
RECURSIVE str_less(_, _)
str_less(a, b) ==
    IF b = <<>> THEN FALSE
    ELSE IF a = <<>> THEN TRUE
    ELSE IF a[1] /= b[1] THEN ord(a[1]) < ord(b[1])
    ELSE str_less(Tail(a), Tail(b))

\* [supplier.lower() for supplier in st.session_state.excluded_suppliers]
load_excluded_suppliers(session_list) ==
    [i \in 1..Len(session_list) |-> str_lower(session_list[i])]

\* A supplier cell: a name, or NaN when the SKU has no supplier
SupplierCell(name) == [kind |-> "text", s |-> name]
NoSupplier == [kind |-> "nan", s |-> <<>>]

\* row['TotalProfit'] / row['TotalSales'] if row['TotalSales'] != 0 else 0
profit_margin(row) ==
    IF row.TotalSales.kind = "num" /\ row.TotalSales.v = 0 THEN Fraction(0, 1)
    ELSE IF row.TotalSales.kind /= "num" \/ row.TotalProfit.kind /= "num" THEN NanFraction
    ELSE IF row.TotalSales.v < 0 THEN Fraction(0 - row.TotalProfit.v, 0 - row.TotalSales.v)
    ELSE Fraction(row.TotalProfit.v, row.TotalSales.v)

calculate_profit_margin(table) ==
    [i \in 1..Len(table) |-> [ProfitMargin |-> profit_margin(table[i])] @@ table[i]]

\* Comparisons of a margin with k hundredths; every comparison with NaN is false
margin_lt(m, k) == m.kind = "num" /\ m.n * 100 < k * m.d
margin_le(m, k) == m.kind = "num" /\ m.n * 100 <= k * m.d
margin_gt(m, k) == m.kind = "num" /\ m.n * 100 > k * m.d
margin_ge(m, k) == m.kind = "num" /\ m.n * 100 >= k * m.d

\* The adjustments are numerators over PoScale; NoReturn is a tier that fell through
NoReturn == <<>>

tier_1_mut_closedgap(margin) ==
    IF margin_lt(margin, 10) THEN <<0 - 80>>
    ELSE IF margin_ge(margin, 10) /\ margin_lt(margin, 20) THEN <<0 - 50>>
    ELSE IF margin_ge(margin, 20) /\ margin_lt(margin, 26) THEN <<0 - 20>>
    ELSE IF margin_ge(margin, 26) /\ margin_le(margin, 33) THEN <<0>>
    ELSE IF margin_gt(margin, 33) THEN <<10>>
    ELSE NoReturn

\* Tier 1: under $100
tier_1(margin) ==
    IF margin_lt(margin, 10) THEN <<0 - 80>>
    ELSE IF margin_ge(margin, 10) /\ margin_lt(margin, 20) THEN <<0 - 50>>
    ELSE IF margin_ge(margin, 20) /\ margin_lt(margin, 25) THEN <<0 - 20>>
    ELSE IF margin_ge(margin, 26) /\ margin_le(margin, 33) THEN <<0>>
    ELSE IF margin_gt(margin, 33) THEN <<10>>
    ELSE NoReturn

\* Tier 2: $100-$250
tier_2(margin) ==
    IF margin_lt(margin, 10) THEN <<0 - 80>>
    ELSE IF margin_ge(margin, 10) /\ margin_lt(margin, 20) THEN <<0 - 50>>
    ELSE IF margin_ge(margin, 20) /\ margin_le(margin, 30) THEN <<0>>
    ELSE IF margin_gt(margin, 30) THEN <<5>>
    ELSE NoReturn

\* Tier 3: $250-$750
tier_3(margin) ==
    IF margin_lt(margin, 5) THEN <<0 - 80>>
    ELSE IF margin_ge(margin, 5) /\ margin_lt(margin, 15) THEN <<0 - 50>>
    ELSE IF margin_ge(margin, 15) /\ margin_le(margin, 28) THEN <<0>>
    ELSE IF margin_gt(margin, 28) THEN <<3>>
    ELSE NoReturn

\* Tier 4: $750+
tier_4(margin) ==
    IF margin_lt(margin, 5) THEN <<0 - 90>>
    ELSE IF margin_ge(margin, 5) /\ margin_lt(margin, 12) THEN <<0 - 60>>
    ELSE IF margin_ge(margin, 12) /\ margin_le(margin, 25) THEN <<0>>
    ELSE IF margin_gt(margin, 25) THEN <<2>>
    ELSE NoReturn

get_adjustment(margin, price) ==
    LET returned ==
            IF price < 100 THEN tier_1(margin)
            ELSE IF 100 <= price /\ price < 250 THEN tier_2(margin)
            ELSE IF 250 <= price /\ price < 750 THEN tier_3(margin)
            ELSE IF price >= 750 THEN tier_4(margin)
            ELSE NoReturn
    IN IF returned = NoReturn THEN 0 ELSE returned[1]

\* AdjustedSalesVelocity is a numerator over PoScale
adjust_row(row) ==
    LET price == to_numeric_fillna(row.Cost_price)
        adjustment == get_adjustment(row.ProfitMargin, price)
    IN [Cost_price |-> NumCell(price),
        VelocityAdjustment |-> adjustment,
        AdjustedSalesVelocity |->
            row.Adjusted_sales_velocity_day.v * (PoScale + adjustment)] @@ row

adjust_sales_velocity(table) == MapSeq(table, adjust_row)

\* df['Adjusted Monthly Sales'] = df['Adjusted sales velocity/day'] * 30
with_monthly_sales(table) ==
    [i \in 1..Len(table) |->
        [Adjusted_Monthly_Sales |-> table[i].Adjusted_sales_velocity_day.v * 30] @@ table[i]]

\* The selected and renamed columns of one row
po_columns(row) ==
    [SupplierName |-> row.LastSuppliedBy,
     Product |-> row.SKU,
     Quantity |-> row.PO_Quantity,
     Price_Amount |-> row.Cost_price.v,
     Lead_time |-> row.Lead_time.v,
     Adjusted_Monthly_Sales |-> row.Adjusted_Monthly_Sales]

is_excluded_mut_casesensitive(supplier, excluded) ==
    \E i \in 1..Len(excluded) : excluded[i] = supplier.s

\* po_data['SupplierName*'].str.lower().isin(excluded_suppliers)
is_excluded(supplier, excluded) ==
    \E i \in 1..Len(excluded) : excluded[i] = str_lower(supplier.s)

filter_po_rows(rows, session_list) ==
    LET with_supplier == SelectSeq(rows, LAMBDA r : r.SupplierName.kind /= "nan")
        with_quantity == SelectSeq(with_supplier, LAMBDA r : r.Quantity > 0)
        excluded == load_excluded_suppliers(session_list)
    IN IF Len(excluded) > 0
       THEN SelectSeq(with_quantity, LAMBDA r : ~is_excluded(r.SupplierName, excluded))
       ELSE with_quantity

group_key(row) == <<row.SupplierName.s, row.Product, row.Price_Amount>>

key_less(a, b) ==
    IF a[1] /= b[1] THEN str_less(a[1], b[1])
    ELSE IF a[2] /= b[2] THEN str_less(a[2], b[2])
    ELSE a[3] < b[3]

\* The group keys in the sorted order groupby gives them
RECURSIVE sorted_keys(_)
sorted_keys(keys) ==
    IF keys = {} THEN <<>>
    ELSE LET first == CHOOSE k \in keys : \A other \in keys \ {k} : key_less(k, other)
         IN <<first>> \o sorted_keys(keys \ {first})

group_quantity_mut_first(group) == group[1].Quantity

\* agg 'sum' of Quantity*
group_quantity(group) == SumSeq(MapSeq(group, LAMBDA r : r.Quantity))

\* groupby(group_cols).agg(agg_dict).reset_index() and the RecordType* column
aggregate_po_rows(rows) ==
    LET keys == sorted_keys({group_key(rows[i]) : i \in 1..Len(rows)})
    IN [k \in 1..Len(keys) |->
           LET group == SelectSeq(rows, LAMBDA r : group_key(r) = keys[k])
           IN [RecordType |-> "Order",
               SupplierName |-> group[1].SupplierName,
               Product |-> group[1].Product,
               Quantity |-> group_quantity(group),
               Price_Amount |-> group[1].Price_Amount,
               Lead_time |-> group[1].Lead_time,
               Adjusted_Monthly_Sales |-> group[1].Adjusted_Monthly_Sales]]

generate_po_csv(table, session_list) ==
    aggregate_po_rows(filter_po_rows(MapSeq(with_monthly_sales(table), po_columns),
                                     session_list))

\* A velocity that is missing or no number makes the arithmetic raise; run_po_generation
\* catches the exception and returns None
velocity_is_number(table) ==
    \A i \in 1..Len(table) : table[i].Adjusted_sales_velocity_day.kind = "num"

\* run_po_generation from the merged table on
GeneratePurchaseOrder ==
    /\ po_stage = "merged"
    /\ IF velocity_is_number(df)
       THEN LET quantities ==
                    calculate_po_quantity(adjust_sales_velocity(calculate_profit_margin(df)))
            IN /\ df' = with_monthly_sales(quantities)
               /\ po_data' = generate_po_csv(quantities, excluded_suppliers)
               /\ po_stage' = "csv"
       ELSE /\ df' = df
            /\ po_data' = <<>>
            /\ po_stage' = "error"
    /\ UNCHANGED excluded_suppliers
    /\ UNCHANGED assemblyVars
    /\ UNCHANGED positionVars
    /\ UNCHANGED appVars

MergedRow(sku, supplier, price, velocity, profit, sales) ==
    [SKU |-> sku, LastSuppliedBy |-> supplier, Cost_price |-> price,
     Adjusted_sales_velocity_day |-> velocity, Lead_time |-> NumCell(7),
     TotalStock |-> NumCell(0), TotalOnOrder |-> NanCell,
     TotalProfit |-> profit, TotalSales |-> sales]

Sku100 == <<"1", "0", "0">>
Sku200 == <<"2", "0", "0">>

PriceCells ==
    {NanCell, NumCell(99), NumCell(100), NumCell(249), NumCell(250), NumCell(749),
     NumCell(750), NumCell(2000)}

\* Total profit over total sales of 1000: the margins around every bracket edge
ProfitsPerThousand ==
    {0 - 50, 0, 49, 50, 99, 100, 119, 120, 149, 150, 199, 200, 249, 250, 255, 260,
     280, 281, 300, 301, 330, 331, 500}

MarginPairs ==
    {<<NumCell(x), NumCell(1000)>> : x \in ProfitsPerThousand}
    \cup {<<NumCell(5), NumCell(0)>>, <<NanCell, NanCell>>,
          <<NumCell(0 - 255), NumCell(0 - 1000)>>, <<NumCell(1), NumCell(3)>>}

AdjustmentRows ==
    {MergedRow(Sku100, SupplierCell(<<"B", "&">>), c, NumCell(10), m[1], m[2]) :
        c \in PriceCells, m \in MarginPairs}
    \cup {MergedRow(Sku100, SupplierCell(<<"B", "&">>), NumCell(99), NanCell,
                    NumCell(300), NumCell(1000))}

\* Velocity adjustment: the cost price and the margin of one SKU vary
InitAdjustment ==
    /\ df \in SeqsUpTo(AdjustmentRows, MaxPoRows)
    /\ excluded_suppliers = <<>>

SupplierCells ==
    {NoSupplier, SupplierCell(<<"A", "b">>), SupplierCell(<<"a", "b">>),
     SupplierCell(<<"B", "&">>)}

CsvRows ==
    {MergedRow(k[1], supplier, NumCell(k[2]), NumCell(v), NumCell(300), NumCell(1000)) :
        k \in {<<Sku100, 10>>, <<Sku100, 20>>, <<Sku200, 10>>},
        supplier \in SupplierCells, v \in {0, 1}}

ExcludedLists == {<<>>, <<<<"a", "B">>, <<"c">>>>, <<<<"b">>>>}

\* Filter and aggregation: suppliers, SKUs, prices and the exclusion list vary
InitCsv ==
    /\ df \in SeqsUpTo(CsvRows, MaxCsvRows)
    /\ excluded_suppliers \in ExcludedLists

InitPurchaseOrder ==
    /\ InitAdjustment \/ InitCsv
    /\ po_stage = "merged"
    /\ po_data = <<>>
    /\ AssemblyIdle
    /\ PositionIdle
    /\ AppIdle

NextPurchaseOrder == GeneratePurchaseOrder

SpecPurchaseOrder == InitPurchaseOrder /\ [][NextPurchaseOrder]_vars

-----------------------------------------------------------------------------
(* Calls of calculate_inventory_position *)

PositionRows ==
    {AvailRow(c, l, q[1], q[2], q[3]) :
        c \in {IntSku("100"), FloatSku("100"), StrSku("200")},
        l \in {"NC - Main", "NC - Armory", "NC - Main Overflow", "CA - Main"},
        q \in {<<5, 3, 2>>, <<1, 0, 0>>}}

PositionSkus == {"100", "100.0", "200"}
PositionLocations == {WarehouseLocations("NC"), WarehouseLocations("CA"), {"NC - Main"}}

CallInventoryPosition(sku, locations) ==
    /\ position_call' = [sku |-> sku, locations |-> locations]
    /\ position' = <<calculate_inventory_position(availability_df, sku, locations)>>
    /\ UNCHANGED assemblyVars
    /\ UNCHANGED poVars
    /\ UNCHANGED appVars

InitPosition ==
    /\ availability_df \in SeqsUpTo(PositionRows, MaxAvailRows)
    /\ bom_df = <<>>
    /\ inventory_df = <<>>
    /\ sales_df = SalesTable(<<>>)
    /\ profit_df = <<>>
    /\ AssemblyFresh
    /\ PositionIdle
    /\ AppIdle
    /\ PoIdle

NextPosition ==
    \E sku \in PositionSkus, locations \in PositionLocations :
        CallInventoryPosition(sku, locations)

SpecPosition == InitPosition /\ [][NextPosition]_vars

Init ==
    /\ InitQuantities \/ InitEligibility \/ InitAssembly \/ InitTransfer
    /\ profit_df = <<ProfitRow(IntSku("100"), <<<<40>>, <<>>, <<20>>>>)>>
    /\ AssemblyFresh
    /\ PositionIdle
    /\ AppIdle
    /\ PoIdle

Next == \E warehouse \in {"All", "NC", "CA"} : GenerateAssemblyOrders(warehouse)

Spec == Init /\ [][Next]_vars

\* Profits of a SKU, split over three month columns with one cell missing
ProfitTotals == {0 - 10, 0, 5, 10, 20, 30, 60, 70, 95}

ProfitSku(total) ==
    IF total < 10 THEN IntSku("100") ELSE IF total < 60 THEN StrSku("200") ELSE FloatSku("300")

ProfitRows ==
    {ProfitRow(ProfitSku(t), <<<<t - 1>>, <<>>, <<1>>>>) : t \in ProfitTotals}
    \cup {ProfitRow(IntSku("400"), <<<<10>>, <<0>>, <<0>>>>)}

\* ABC analysis: the profit table varies, the other tables are one assembly's
InitAbc ==
    /\ bom_df = <<BomRow(IntSku("100"), IntSku("200"), 1)>>
    /\ inventory_df = <<EligibleRow(IntSku("100"))>>
    /\ availability_df = <<AvailRow(IntSku("100"), "NC - Main", 4, 0, 0),
                           AvailRow(IntSku("200"), "NC - Main", 6, 0, 0)>>
    /\ sales_df = SalesTable(<<SalesRow(IntSku("100"), 60)>>)
    /\ profit_df \in SeqsUpTo(ProfitRows, MaxProfitRows)
    /\ AssemblyFresh
    /\ PositionIdle
    /\ AppIdle
    /\ PoIdle

SpecAbc == InitAbc /\ [][Next]_vars

\* Sales tables of three, six and seven month columns, with and without
\* Total and Average columns, and one whose last header only contains "Total"
Jul == <<"J", "u", "l">>
AverageHeader == <<"A", "v", "e", "r", "a", "g", "e">>
NetTotalHeader == <<"N", "e", "t", " ", "T", "o", "t", "a", "l">>

VelocityColumns ==
    {<<Jan, Feb, Mar>>,
     <<Jan, Feb, Mar, NetTotalHeader>>,
     <<Jan, Feb, Mar, Apr, May, Jun>>,
     <<Jan, Feb, Mar, Apr, May, Jun, TotalHeader, AverageHeader>>,
     <<Jan, Feb, Mar, Apr, May, Jun, Jul>>}

VelocityCells == {<<>>, <<7>>, <<30>>}

VelocitySku(cell) ==
    IF cell = <<>> THEN IntSku("100")
    ELSE IF cell = <<7>> THEN StrSku("200") ELSE FloatSku("300")

\* A row holding odd in its odd columns and even in its even columns
VelocityRow(columns, odd, even) ==
    [SKU |-> VelocitySku(odd),
     vals |-> [j \in 1..Len(columns) |-> IF j % 2 = 1 THEN odd ELSE even]]

VelocityTables ==
    UNION {{[columns |-> columns, rows |-> rows] :
               rows \in SeqsUpTo({VelocityRow(columns, odd, even) :
                                     odd \in VelocityCells, even \in VelocityCells},
                                 MaxSalesRows)} :
           columns \in VelocityColumns}

\* Sales velocity: the sales table varies, the other tables are one assembly's
InitVelocity ==
    /\ bom_df = <<BomRow(IntSku("100"), IntSku("200"), 1)>>
    /\ inventory_df = <<EligibleRow(IntSku("100"))>>
    /\ availability_df = <<AvailRow(IntSku("100"), "NC - Main", 4, 0, 0),
                           AvailRow(IntSku("200"), "NC - Main", 6, 0, 0)>>
    /\ sales_df \in VelocityTables
    /\ profit_df = <<ProfitRow(IntSku("100"), <<<<40>>, <<>>, <<20>>>>)>>
    /\ AssemblyFresh
    /\ PositionIdle
    /\ AppIdle
    /\ PoIdle

SpecVelocity == InitVelocity /\ [][Next]_vars

-----------------------------------------------------------------------------
(* app.py: files are uploaded in the Upload Database tab *)

UploadedFile(name, table) == [name |-> name, table |-> table]

SalesReportName == <<"S", "a", "l", "e", "s", " ", "b", "y", " ", "P", "r", "o", "d", "u", "c", "t", " ", "D", "e", "t", "a", "i", "l", "s", " ", "R", "e", "p", "o", "r", "t">>

\* The dataset a file name is recognised as: the elif chain of parse_uploaded_files
file_dataset(filename) ==
    IF startswith(filename, <<"A", "v", "a", "i", "l", "a", "b", "i", "l", "i", "t", "y", "R", "e", "p", "o", "r", "t", "_">>) THEN AvailabilityReportName
    ELSE IF contains(filename, <<"B", "O", "M", " ", "C", "o", "m", "p", "o", "n", "e", "n", "t", " ", "A", "v", "a", "i", "l", "a", "b", "i", "l", "i", "t", "y">>) /\ endswith(filename, <<".", "x", "l", "s", "x">>) THEN BomReportName
    ELSE IF startswith(filename, <<"I", "n", "v", "e", "n", "t", "o", "r", "y", "L", "i", "s", "t", "_">>) THEN InventoryListName
    ELSE IF \/ contains(filename, <<"r", "e", "p", "l", "e", "n", "i", "s", "h", "m", "e", "n", "t", "-", "C", "o", "m", "b", "i", "n", "e", "d", " ", "N", "C", " ", "W", "a", "r", "e", "h", "o", "u", "s", "e", "s">>)
            \/ contains(filename, <<"r", "e", "p", "l", "e", "n", "i", "s", "h", "m", "e", "n", "t", "-", "C", "o", "m", "b", "i", "n", "e", "d", "_", "N", "C", "_", "W", "a", "r", "e", "h", "o", "u", "s", "e", "s">>)
         THEN ReplenishmentReportName("nc")
    ELSE IF \/ contains(filename, <<"r", "e", "p", "l", "e", "n", "i", "s", "h", "m", "e", "n", "t", "-", "C", "o", "m", "b", "i", "n", "e", "d", " ", "C", "A", " ", "W", "a", "r", "e", "h", "o", "u", "s", "e", "s">>)
            \/ contains(filename, <<"r", "e", "p", "l", "e", "n", "i", "s", "h", "m", "e", "n", "t", "-", "C", "o", "m", "b", "i", "n", "e", "d", "_", "C", "A", "_", "W", "a", "r", "e", "h", "o", "u", "s", "e", "s">>)
         THEN ReplenishmentReportName("ca")
    ELSE IF contains(filename, SalesReportName) /\ endswith(filename, <<".", "x", "l", "s", "x">>) THEN SalesReportName
    ELSE <<>>

\* The keys under which a file's tables are stored: a sales report is split into
\* one table per metric
stored_names(filename) ==
    LET dataset == file_dataset(filename)
    IN IF dataset = <<>> THEN {}
       ELSE IF dataset = SalesReportName
       THEN {SalesPrefix \o MetricName(metric) : metric \in Metrics}
       ELSE {dataset}

parse_uploaded_files(files) == UNION {stored_names(f.name) : f \in files}

\* The table now stored under a name
uploaded_table(files, dataset, current) ==
    IF \E f \in files : file_dataset(f.name) = dataset
    THEN (CHOOSE f \in files : file_dataset(f.name) = dataset).table
    ELSE current

\* The upload updates the session's tables; the script then runs to its end, so the
\* report sections of both warehouse tabs are shown again
UploadFiles(files) ==
    /\ files # {}
    /\ \A f, g \in files : file_dataset(f.name) = file_dataset(g.name) => f = g
    /\ dataframes' = dataframes \cup parse_uploaded_files(files)
    /\ availability_df' = uploaded_table(files, AvailabilityReportName, availability_df)
    /\ bom_df' = uploaded_table(files, BomReportName, bom_df)
    /\ inventory_df' = uploaded_table(files, InventoryListName, inventory_df)
    /\ replenishment_df' =
           [location \in {"nc", "ca"} |->
               IF \E f \in files : file_dataset(f.name) = ReplenishmentReportName(location)
               THEN column_astype_str(
                        uploaded_table(files, ReplenishmentReportName(location), <<>>), "SKU")
               ELSE replenishment_df[location]]
    /\ \E nc \in report_section(report_cache["NC"], "NC" \in generated,
                                assembly_analysis_results["NC"],
                                transfer_recommendations["NC"]),
          ca \in report_section(report_cache["CA"], "CA" \in generated,
                                assembly_analysis_results["CA"],
                                transfer_recommendations["CA"]) :
           report_cache' = [wh \in Warehouses |-> IF wh = "NC" THEN nc ELSE ca]
    /\ UNCHANGED <<sales_df, profit_df, sales_velocity_df,
                   replenish_df, assembly_analysis_results, transfer_recommendations,
                   generated, abc_analysis>>
    /\ UNCHANGED <<sale_df, cogs_df>>
    /\ UNCHANGED positionVars
    /\ UNCHANGED poVars
    /\ UNCHANGED <<serviceVars, supplierVars>>

AvailabilityFile(table) == UploadedFile(<<"A", "v", "a", "i", "l", "a", "b", "i", "l", "i", "t", "y", "R", "e", "p", "o", "r", "t", "_", "1", ".", "c", "s", "v">>, table)

\* Availability reports of assembly 100 and its component 200: the component is in
\* stock, out of stock, or in stock in California
ReportTables ==
    {<<AvailRow(IntSku("100"), "NC - Main", 4, 0, 0),
       AvailRow(IntSku("200"), "NC - Main", 6, 0, 0)>>,
     <<AvailRow(IntSku("100"), "NC - Main", 4, 0, 0),
       AvailRow(IntSku("200"), "NC - Main", 0, 0, 0)>>,
     <<AvailRow(IntSku("200"), "NC - Main", 5, 0, 0),
       AvailRow(IntSku("200"), "NC - Armory", 35, 0, 0)>>,
     <<AvailRow(IntSku("100"), "CA - Main", 2, 0, 0),
       AvailRow(IntSku("200"), "CA - Main", 20, 0, 0)>>}

InitReports ==
    /\ bom_df = <<BomRow(IntSku("100"), IntSku("200"), 1)>>
    /\ inventory_df = <<EligibleRow(IntSku("100"))>>
    /\ availability_df \in ReportTables
    /\ sales_df = SalesTable(<<SalesRow(IntSku("100"), 60)>>)
    /\ profit_df = <<ProfitRow(IntSku("100"), <<<<40>>, <<>>, <<20>>>>)>>
    /\ AssemblyFresh
    /\ PositionIdle
    /\ AppIdle
    /\ PoIdle

NextReports ==
    \/ \E warehouse \in {"All", "NC", "CA"} : GenerateAssemblyOrders(warehouse)
    \/ \E table \in ReportTables : UploadFiles({AvailabilityFile(table)})

SpecReports == InitReports /\ [][NextReports]_vars

-----------------------------------------------------------------------------
(* po_generation_app: the Flask service *)

ReplenishmentFile(location) ==
    IF location = "nc" THEN "replenishment-Combined NC Warehouses-variants-1.csv"
    ELSE "replenishment-Combined CA Warehouses-variants-1.csv"

SalesFile == "Sales by Product Details Report.xlsx"

\* The merged table of a one-SKU upload: the replenishment file gives the sales
\* velocity, the sales report the profit (on sales of 1000)
merged_table(velocity, profit) ==
    <<MergedRow(Sku100, SupplierCell(<<"B", "&">>), NumCell(99), NumCell(velocity),
                NumCell(profit), NumCell(1000))>>

\* The purchase order processing.run_po_generation writes for a merged table
purchase_order(table) ==
    generate_po_csv(
        calculate_po_quantity(adjust_sales_velocity(calculate_profit_margin(table))), <<>>)

\* upload_file, lines 14-15: the request empties the upload folder
ClearUploadFolder(r, location, velocity, profit) ==
    /\ requests[r].pc = "idle"
    /\ uploads' = [f \in UploadedFiles |-> <<>>]
    /\ requests' = [requests EXCEPT ![r] = [NoRequest EXCEPT !.pc = "cleared",
                                                            !.location = location,
                                                            !.velocity = velocity,
                                                            !.profit = profit]]
    /\ UNCHANGED outputs
    /\ UNCHANGED <<engineVars, sessionVars, supplierVars>>

\* upload_file, lines 20-25: the request's files are saved under their own names
SaveFiles(r) ==
    /\ requests[r].pc = "cleared"
    /\ uploads' = [uploads EXCEPT ![ReplenishmentFile(requests[r].location)] =
                                      <<requests[r].velocity>>,
                                  ![SalesFile] = <<requests[r].profit>>]
    /\ requests' = [requests EXCEPT ![r].pc = "saved"]
    /\ UNCHANGED outputs
    /\ UNCHANGED <<engineVars, sessionVars, supplierVars>>

\* processing.run_po_generation: the files found in the folder are loaded, and the
\* purchase order is written to purchase_order_<location>.csv in the working directory
ServiceRunPoGeneration(r) ==
    LET location == requests[r].location
        replenishment == uploads[ReplenishmentFile(location)]
        sales == uploads[SalesFile]
    IN /\ requests[r].pc = "saved"
       /\ IF replenishment = <<>> \/ sales = <<>>
          THEN /\ requests' = [requests EXCEPT ![r].pc = "done", ![r].response = "error"]
               /\ UNCHANGED outputs
          ELSE LET po == purchase_order(merged_table(replenishment[1], sales[1]))
               IN /\ outputs' = [outputs EXCEPT ![location] = <<po>>]
                  /\ requests' = [requests EXCEPT ![r].pc = "done", ![r].response = "ok",
                                                  ![r].po = <<po>>]
       /\ UNCHANGED uploads
       /\ UNCHANGED <<engineVars, sessionVars, supplierVars>>

\* download_file: the client follows the link of the response
DownloadFile(r) ==
    /\ requests[r].pc = "done"
    /\ requests[r].response = "ok"
    /\ requests' = [requests EXCEPT ![r].pc = "downloaded",
                                    ![r].received = outputs[requests[r].location]]
    /\ UNCHANGED <<uploads, outputs>>
    /\ UNCHANGED <<engineVars, sessionVars, supplierVars>>

ServiceVelocities == {10, 20}
ServiceProfits == {0, 300}

NextService ==
    \/ \E r \in Requests, location \in {"nc", "ca"}, velocity \in ServiceVelocities,
          profit \in ServiceProfits : ClearUploadFolder(r, location, velocity, profit)
    \/ \E r \in Requests : SaveFiles(r)
    \/ \E r \in Requests : ServiceRunPoGeneration(r)
    \/ \E r \in Requests : DownloadFile(r)

InitService ==
    /\ AssemblyIdle
    /\ PositionIdle
    /\ PoIdle
    /\ AppIdle

SpecService == InitService /\ [][NextService]_vars

-----------------------------------------------------------------------------
(* po_generation.run_po_generation: from the session's tables to the purchase order *)

RECURSIVE FlattenSeq(_)
FlattenSeq(ss) == IF ss = <<>> THEN <<>> ELSE Head(ss) \o FlattenSeq(Tail(ss))

\* left.merge(right, how='left'): the rows of left in order, each with the columns of
\* its matches in right, or with missing cells when it has none
left_merge(left, left_on, right, right_on, missing) ==
    FlattenSeq([i \in 1..Len(left) |->
        LET matches == SelectSeq(right, LAMBDA r : r[right_on] = left[i][left_on])
        IN IF matches = <<>> THEN <<missing @@ left[i]>>
           ELSE [j \in 1..Len(matches) |-> matches[j] @@ left[i]]])

\* df[cols].sum(axis=1, skipna=True) of a metric table's row
metric_total(row) == SumSeq(MapSeq(row.vals, CellValue))

total_cell(table, sku) ==
    LET found == SelectSeq(table, LAMBDA r : r.SKU = sku)
    IN IF found = <<>> THEN NanCell ELSE NumCell(metric_total(found[1]))

\* The outer merge of the four metric totals on SKU (a SKU occurs once per metric
\* table), then SKU.astype(str)
merged_sales(sale, cogs, profit, quantity) ==
    LET sku_column(table) == MapSeq(table, LAMBDA r : r.SKU)
        skus == unique(sku_column(sale) \o sku_column(cogs) \o sku_column(profit)
                       \o sku_column(quantity))
    IN [i \in 1..Len(skus) |->
           [SKU |-> astype_chars(skus[i]),
            TotalSales |-> total_cell(sale, skus[i]),
            TotalCOGS |-> total_cell(cogs, skus[i]),
            TotalProfit |-> total_cell(profit, skus[i]),
            TotalQuantity |-> total_cell(quantity, skus[i])]]

NoSales ==
    [TotalSales |-> NanCell, TotalCOGS |-> NanCell, TotalProfit |-> NanCell,
     TotalQuantity |-> NanCell]

\* The location's records grouped by SKU, with Available and OnOrder summed
agg_stock(availability, location) ==
    LET location_availability ==
            SelectSeq(availability,
                      LAMBDA r : startswith(r.Location, UpperLocation(location)))
        skus == unique(MapSeq(location_availability, LAMBDA r : r.SKU))
        group(sku) == SelectSeq(location_availability, LAMBDA r : r.SKU = sku)
    IN [i \in 1..Len(skus) |->
           [SKU |-> astype_chars(skus[i]),
            TotalStock |->
                NumCell(SumSeq(MapSeq(group(skus[i]), LAMBDA r : r.Available))),
            TotalOnOrder |->
                NumCell(SumSeq(MapSeq(group(skus[i]), LAMBDA r : r.OnOrder)))]]

NoStock == [TotalStock |-> NanCell, TotalOnOrder |-> NanCell]

NoInventory == [ProductCode |-> <<>>, LastSuppliedBy |-> NoSupplier]

\* The cell texts of a column, for the merge keys
key_column(table, column) ==
    [i \in 1..Len(table) |-> [c \in {column} |-> table[i][column].s] @@ table[i]]

\* Lines 262-288: the merged table, from the tables whose key columns are text already
merge_reports(replenishment, sales, inventory, stock) ==
    left_merge(
        left_merge(
            left_merge(key_column(replenishment, "SKU"), "SKU", sales, "SKU", NoSales),
            "SKU", key_column(inventory, "ProductCode"), "ProductCode", NoInventory),
        "SKU", stock, "SKU", NoStock)

\* The 'Generate Purchase Order' handler's call run_po_generation(dataframes, location)
RunPoGeneration(location) ==
    LET has_sales == \A metric \in Metrics : ByProductsName(metric) \in dataframes
        has_replenishment ==
            \E name \in dataframes : contains(name, ReplenishmentReportName(location))
        has_tables == InventoryListName \in dataframes /\ AvailabilityReportName \in dataframes
        replenishment == column_astype_str(replenishment_df[location], "SKU")
        inventory == column_astype_str(inventory_df, "ProductCode")
        merged ==
            merge_reports(replenishment,
                          merged_sales(sale_df, cogs_df, profit_df, sales_df.rows),
                          inventory, agg_stock(availability_df, location))
        quantities ==
            calculate_po_quantity(adjust_sales_velocity(calculate_profit_margin(merged)))
    IN /\ IF ~(has_sales /\ has_replenishment /\ has_tables)
          THEN /\ po_stage' = "error"
               /\ df' = <<>>
               /\ po_data' = <<>>
               /\ UNCHANGED <<replenishment_df, inventory_df>>
          ELSE /\ replenishment_df' = [replenishment_df EXCEPT ![location] = replenishment]
               /\ inventory_df' = inventory
               /\ IF velocity_is_number(merged)
                  THEN /\ df' = with_monthly_sales(quantities)
                       /\ po_data' = generate_po_csv(quantities, excluded_suppliers)
                       /\ po_stage' = "csv"
                  ELSE /\ df' = merged
                       /\ po_data' = <<>>
                       /\ po_stage' = "error"
       /\ UNCHANGED <<bom_df, availability_df, sales_df, profit_df, sales_velocity_df,
                      replenish_df, assembly_analysis_results, transfer_recommendations,
                      generated, abc_analysis, report_cache>>
       /\ UNCHANGED <<dataframes, sale_df, cogs_df, excluded_suppliers>>
       /\ UNCHANGED positionVars
       /\ UNCHANGED <<serviceVars, supplierVars>>

ReplenishmentRow(sku, velocity) ==
    [SKU |-> sku, Adjusted_sales_velocity_day |-> velocity, Lead_time |-> NumCell(7),
     Cost_price |-> NumCell(99)]

SupplierRow(code, supplier) == [ProductCode |-> code, LastSuppliedBy |-> supplier]

StockRow(sku, location, available, on_order) ==
    [SKU |-> sku, Location |-> location, Available |-> available, OnOrder |-> on_order]

\* Inventory List rows: read_csv gives integer, text or float product codes
SupplierRows ==
    {SupplierRow(code, supplier) :
        code \in {IntSku(Sku100), StrSku(Sku100), FloatSku(Sku100), IntSku(Sku200)},
        supplier \in {SupplierCell(<<"B", "&">>), NoSupplier}}

\* The upload step stores replenishment SKUs as text
ReplenishmentReports ==
    {<<ReplenishmentRow(StrSku(Sku100), NumCell(10))>>,
     <<ReplenishmentRow(StrSku(Sku200), NumCell(5)), ReplenishmentRow(StrSku(Sku100), NumCell(10))>>,
     <<ReplenishmentRow(StrSku(Sku100), NanCell)>>}

SessionNames ==
    {AvailabilityReportName, InventoryListName, ReplenishmentReportName("nc")}

\* The session holds an NC replenishment report and the tables of one sales report
InitSession ==
    /\ dataframes \in {SessionNames \cup {ByProductsName(metric) : metric \in Metrics},
                       SessionNames \cup {SalesPrefix \o MetricName(metric) : metric \in Metrics}}
    /\ replenishment_df \in {[NoReports EXCEPT !["nc"] = report] : report \in ReplenishmentReports}
    /\ inventory_df \in SeqsUpTo(SupplierRows, MaxInvRows)
    /\ availability_df =
           <<StockRow(IntSku(Sku100), <<"N", "C", " ", "-", " ", "M", "a", "i", "n">>, 5, 0),
             StockRow(IntSku(Sku100), <<"N", "C", " ", "-", " ", "F", "F", "L">>, 1, 2),
             StockRow(IntSku(Sku100), <<"C", "A", " ", "-", " ", "M", "a", "i", "n">>, 500, 0)>>
    /\ sale_df = <<ProfitRow(IntSku(Sku100), <<<<600>>, <<>>, <<400>>>>)>>
    /\ cogs_df = <<ProfitRow(IntSku(Sku100), <<<<500>>, <<>>, <<200>>>>)>>
    /\ profit_df = <<ProfitRow(IntSku(Sku100), <<<<100>>, <<>>, <<200>>>>)>>
    /\ sales_df = SalesTable(<<SalesRow(IntSku(Sku100), 60)>>)
    /\ bom_df = <<>>
    /\ AssemblyFresh
    /\ PositionIdle
    /\ PoIdle
    /\ ServiceIdle
    /\ SupplierIdle

NextSession == \E location \in {"nc", "ca"} : RunPoGeneration(location)

SpecSession == InitSession /\ [][NextSession]_vars

-----------------------------------------------------------------------------
(* run_assembly_order_generation: the tab's data validation *)

ByProductsData == <<"B", "y", " ", "P", "r", "o", "d", "u", "c", "t", "s", " ", "D", "a", "t", "a">>

\* [df for df in st.session_state.dataframes.keys() if df.startswith('By Products -')]
sales_dfs(names) == {name \in names : startswith(name, ByProductsPrefix)}

missing_files(names) ==
    {name \in {BomReportName, AvailabilityReportName, InventoryListName} : name \notin names}
    \cup (IF sales_dfs(names) = {} THEN {ByProductsData} ELSE {})

\* The 'Generate Assembly Orders' button is disabled unless this holds
processing_enabled(names) == missing_files(names) = {}

\* Files a user uploads: the reports under their export names, and a stray file
SampleFiles ==
    {UploadedFile(<<"A", "v", "a", "i", "l", "a", "b", "i", "l", "i", "t", "y", "R", "e", "p", "o", "r", "t", "_", "2", "0", "2", "4", "-", "0", "1", "-", "0", "5", ".", "c", "s", "v">>, table) : table \in ReportTables}
    \cup {UploadedFile(<<"I", "n", "v", "e", "n", "t", "o", "r", "y", "L", "i", "s", "t", "_", "2", "0", "2", "4", "-", "0", "1", "-", "0", "5", ".", "c", "s", "v">>, <<EligibleRow(sku)>>) : sku \in {IntSku("100"), StrSku("200")}}
    \cup {UploadedFile(<<"B", "O", "M", " ", "C", "o", "m", "p", "o", "n", "e", "n", "t", " ", "A", "v", "a", "i", "l", "a", "b", "i", "l", "i", "t", "y", ".", "x", "l", "s", "x">>, <<BomRow(IntSku("100"), IntSku("200"), 1)>>),
          UploadedFile(<<"r", "e", "p", "l", "e", "n", "i", "s", "h", "m", "e", "n", "t", "-", "C", "o", "m", "b", "i", "n", "e", "d", " ", "N", "C", " ", "W", "a", "r", "e", "h", "o", "u", "s", "e", "s", "-", "v", "a", "r", "i", "a", "n", "t", "s", "-", "1", ".", "c", "s", "v">>, <<ReplenishmentRow(IntSku(Sku100), NumCell(10))>>),
          UploadedFile(<<"r", "e", "p", "l", "e", "n", "i", "s", "h", "m", "e", "n", "t", "-", "C", "o", "m", "b", "i", "n", "e", "d", "_", "C", "A", "_", "W", "a", "r", "e", "h", "o", "u", "s", "e", "s", "-", "v", "a", "r", "i", "a", "n", "t", "s", "-", "1", ".", "c", "s", "v">>, <<ReplenishmentRow(StrSku(Sku200), NumCell(5))>>),
          UploadedFile(<<"S", "a", "l", "e", "s", " ", "b", "y", " ", "P", "r", "o", "d", "u", "c", "t", " ", "D", "e", "t", "a", "i", "l", "s", " ", "R", "e", "p", "o", "r", "t", ".", "x", "l", "s", "x">>, <<>>),
          UploadedFile(<<"n", "o", "t", "e", "s", ".", "c", "s", "v">>, <<>>)}

\* A fresh session: nothing uploaded yet
InitUpload ==
    /\ AssemblyIdle
    /\ PositionIdle
    /\ PoIdle
    /\ AppIdle

NextUpload == \E files \in SUBSET SampleFiles : UploadFiles(files)

SpecUpload == InitUpload /\ [][NextUpload]_vars

-----------------------------------------------------------------------------
(* supplier_management.run_supplier_management: the Supplier Management tab *)

\* The list load_excluded_suppliers installs when the session has none
LoadedSuppliers ==
    <<<<"d", "e", "v", "i", "l", " ", "d", "o", "g", " ", "c", "o", "n", "c", "e", "p", "t", "s">>,
      <<"a", "p", "o", "c", " ", "a", "r", "m", "o", "r", "y">>,
      <<"t", "i", "g", "e", "r", " ", "r", "o", "c", "k", " ", "i", "n", "c", ".">>,
      <<"c", "r", "o", "w", " ", "s", "h", "o", "o", "t", "i", "n", "g", " ", "s", "u", "p", "p", "l", "y">>,
      <<"H", "a", "v", "o", "c", " ", "T", "a", "c", "t", "i", "c", "a", "l", " ", "S", "o", "l", "u", "t", "i", "o", "n", "s", " ", "L", "l", "c">>,
      <<"s", "e", "l", "l", "w", "a", "y", " ", "a", "r", "m", "o", "r", "y">>,
      <<"t", "r", "u", "e", " ", "s", "h", "o", "t", " ", "g", "u", "n", " ", "c", "l", "u", "b">>,
      <<"a", "n", "d", "r", "e", "w", " ", "b", "e", "r", "g", "q", "u", "i", "s", "t">>,
      <<"i", "n", "-", "s", "t", "o", "r", "e", " ", "p", "u", "r", "c", "h", "a", "s", "e">>,
      <<"p", "o", "i", "n", "t", " ", "2", " ", "p", "o", "i", "n", "t", " ", "g", "l", "o", "b", "a", "l", " ", "s", "o", "l", "u", "t", "i", "o", "n", "s">>,
      <<"u", "n", "k", "n", "o", "w", "n">>,
      <<"a", "p", "p", "a", "r", "e", "l", ".", "c", "o", "m">>,
      <<"d", "b", "i", ",", " ", "l", "l", "c">>,
      <<"d", "b", "i", " ", "b", "a", "k", "e", "r", "s", "f", "i", "e", "l", "d", " ", "c", "u", "s", "t", "o", "m", "e", "r", "s">>,
      <<"d", "b", "i", " ", "b", "a", "k", "e", "r", "s", "f", "i", "e", "l", "d">>,
      <<"m", "i", "d", "w", "a", "y", " ", "u", "s", "a">>,
      <<"J", "&", "G", " ", "S", "a", "l", "e", "s">>,
      <<"M", "e", "l", "l", "i", "n", "g", "e", "r", "s", " ", "B", "r", "a", "s", "s", " ", "B", "e", "e", "s">>,
      <<"F", "I", "N", " ", "F", "E", "A", "T", "H", "E", "R", " ", "F", "U", "R", " ", "O", "U", "T", "F", "I", "T", "T", "E", "R", "S">>,
      <<"s", "i", "o", "n", "i", "c", "s", " ", "w", "e", "a", "p", "o", "n", " ", "s", "y", "s", "t", "e", "m", "s">>,
      <<"p", "r", "i", "m", "a", "r", "y", " ", "w", "e", "a", "p", "o", "n", " ", "s", "y", "s", "t", "e", "m", "s">>,
      <<"n", ".", "a", ".", "g", ".", " ", "i", "n", "d", "u", "s", "t", "r", "i", "e", "s">>,
      <<"m", "o", "d", "e", "r", "n", " ", "a", "r", "m", "o", "r", "y">>,
      <<"j", "l", "o", " ", "m", "e", "t", "a", "l", " ", "p", "r", "o", "d", "u", "c", "t", "s">>,
      <<"W", "a", "r", " ", "D", "o", "g", " ", "I", "n", "d", "u", "s", "t", "r", "i", "e", "s">>,
      <<"r", " ", "&", " ", "j", " ", "l", "e", "g", "a", "c", "y", " ", "i", "n", "c", ".">>,
      <<"M", "i", "w", "a", "l", "l", " ", "C", "o", "r", "p">>>>

\* The list of the 'Reset to Defaults' button
default_suppliers ==
    <<<<"a", "u", "t", "o", " ", "t", "r", "a", "n", "s", "f", "e", "r">>,
      <<"d", "i", "r", "e", "c", "t", " ", "t", "r", "a", "n", "s", "f", "e", "r">>,
      <<"i", "n", "t", "e", "r", "n", "a", "l", " ", "t", "r", "a", "n", "s", "f", "e", "r">>,
      <<"t", "r", "a", "n", "s", "f", "e", "r", " ", "i", "n">>,
      <<"t", "r", "a", "n", "s", "f", "e", "r", " ", "o", "u", "t">>,
      <<"s", "t", "o", "c", "k", " ", "a", "d", "j", "u", "s", "t", "m", "e", "n", "t">>,
      <<"i", "n", "v", "e", "n", "t", "o", "r", "y", " ", "a", "d", "j", "u", "s", "t", "m", "e", "n", "t">>,
      <<"w", "r", "i", "t", "e", " ", "o", "f", "f">>,
      <<"d", "a", "m", "a", "g", "e", "d", " ", "g", "o", "o", "d", "s">>,
      <<"l", "o", "s", "t", " ", "i", "n", "v", "e", "n", "t", "o", "r", "y">>,
      <<"r", "e", "t", "u", "r", "n", "e", "d", " ", "g", "o", "o", "d", "s">>,
      <<"c", "u", "s", "t", "o", "m", "e", "r", " ", "r", "e", "t", "u", "r", "n">>,
      <<"w", "a", "r", "r", "a", "n", "t", "y", " ", "r", "e", "p", "l", "a", "c", "e", "m", "e", "n", "t">>,
      <<"s", "a", "m", "p", "l", "e", " ", "p", "r", "o", "d", "u", "c", "t">>,
      <<"p", "r", "o", "m", "o", "t", "i", "o", "n", "a", "l", " ", "i", "t", "e", "m">>,
      <<"g", "i", "f", "t">>,
      <<"c", "o", "m", "p", "l", "i", "m", "e", "n", "t", "a", "r", "y">>,
      <<"t", "e", "s", "t", "i", "n", "g">>,
      <<"q", "u", "a", "l", "i", "t", "y", " ", "c", "o", "n", "t", "r", "o", "l">>,
      <<"r", "e", "s", "e", "a", "r", "c", "h">>,
      <<"d", "e", "v", "e", "l", "o", "p", "m", "e", "n", "t">>,
      <<"p", "r", "o", "t", "o", "t", "y", "p", "e">>,
      <<"d", "i", "s", "c", "o", "n", "t", "i", "n", "u", "e", "d">>,
      <<"o", "b", "s", "o", "l", "e", "t", "e">>,
      <<"e", "n", "d", " ", "o", "f", " ", "l", "i", "f", "e">>,
      <<"c", "l", "e", "a", "r", "a", "n", "c", "e">>,
      <<"l", "i", "q", "u", "i", "d", "a", "t", "i", "o", "n">>,
      <<"b", "u", "l", "k", " ", "s", "a", "l", "e">>>>

\* str.strip() of spaces
RECURSIVE lstrip(_)
lstrip(s) == IF s # <<>> /\ Head(s) = " " THEN lstrip(Tail(s)) ELSE s

RECURSIVE rstrip(_)
rstrip(s) ==
    IF s # <<>> /\ s[Len(s)] = " " THEN rstrip(SubSeq(s, 1, Len(s) - 1)) ELSE s

strip(s) == lstrip(rstrip(s))

\* [line.strip() for line in text.split('\n') if line.strip()]
stripped_lines(lines) ==
    SelectSeq(MapSeq(lines, strip), LAMBDA line : line # <<>>)

\* sorted(list(set(names)))
RECURSIVE sorted_names(_)
sorted_names(names) ==
    IF names = {} THEN <<>>
    ELSE LET first == CHOOSE n \in names : \A other \in names \ {n} : str_less(n, other)
         IN <<first>> \o sorted_names(names \ {first})

SupplierFrame ==
    /\ UNCHANGED <<df, po_stage, po_data>>
    /\ UNCHANGED assemblyVars
    /\ UNCHANGED positionVars
    /\ UNCHANGED <<serviceVars, sessionVars>>

SaveChanges(suppliers_text) ==
    /\ excluded_suppliers' = stripped_lines(suppliers_text)
    /\ last_click' = "Save Changes"
    /\ UNCHANGED confirm_clear
    /\ SupplierFrame

ResetToDefaults ==
    /\ excluded_suppliers' = default_suppliers
    /\ last_click' = "Reset to Defaults"
    /\ UNCHANGED confirm_clear
    /\ SupplierFrame

ClearAll ==
    /\ IF confirm_clear
       THEN /\ excluded_suppliers' = <<>>
            /\ confirm_clear' = FALSE
       ELSE /\ confirm_clear' = TRUE
            /\ UNCHANGED excluded_suppliers
    /\ last_click' = "Clear All"
    /\ SupplierFrame

\* 'Import (Replace All)': offered when the file holds at least one name
ImportReplace(content) ==
    /\ stripped_lines(content) # <<>>
    /\ excluded_suppliers' = stripped_lines(content)
    /\ last_click' = "Import (Replace All)"
    /\ UNCHANGED confirm_clear
    /\ SupplierFrame

ImportAdd(content) ==
    LET imported_suppliers == stripped_lines(content)
        combined == {excluded_suppliers[i] : i \in 1..Len(excluded_suppliers)}
                    \cup {imported_suppliers[i] : i \in 1..Len(imported_suppliers)}
    IN /\ imported_suppliers # <<>>
       /\ excluded_suppliers' = sorted_names(combined)
       /\ last_click' = "Import (Add to Existing)"
       /\ UNCHANGED confirm_clear
       /\ SupplierFrame

\* Texts typed into the text area or read from an imported file
SupplierTexts ==
    {<<>>,
     <<<<" ", "a", "B", " ">>, <<>>, <<"c">>>>,
     <<<<"g", "i", "f", "t">>>>,
     <<<<"Z", "e", "t", "a", " ", "A", "r", "m", "s">>, <<" ", " ">>>>,
     <<<<"G", "i", "f", "t">>, <<"m", "i", "d", "w", "a", "y", " ", "u", "s", "a">>>>}

\* The session after the first run of the script, which installs the list
InitSuppliers ==
    /\ AssemblyIdle
    /\ PositionIdle
    /\ df = <<>>
    /\ po_stage = "merged"
    /\ po_data = <<>>
    /\ excluded_suppliers = LoadedSuppliers
    /\ AppIdle

NextSuppliers ==
    \/ \E suppliers_text \in SupplierTexts : SaveChanges(suppliers_text)
    \/ ResetToDefaults
    \/ ClearAll
    \/ \E content \in SupplierTexts : ImportReplace(content)
    \/ \E content \in SupplierTexts : ImportAdd(content)

SpecSuppliers == InitSuppliers /\ [][NextSuppliers]_vars

-----------------------------------------------------------------------------
(* Definitions the properties are stated with *)

RECURSIVE SetSum(_, _)
SetSum(S, f) ==
    IF S = {} THEN 0
    ELSE LET x == CHOOSE y \in S : TRUE IN f[x] + SetSum(S \ {x}, f)

SetMin(S) == CHOOSE x \in S : \A y \in S : x <= y

\* Indices of the records of a SKU at the given locations
RecordsOf(availability, sku, locations) ==
    {i \in 1..Len(availability) :
        astype_str(availability[i].SKU) = sku /\ availability[i].Location \in locations}

OnHandOf(availability, sku, locations) ==
    SetSum(RecordsOf(availability, sku, locations),
           [i \in 1..Len(availability) |-> availability[i].OnHand])

OnOrderOf(availability, sku, locations) ==
    SetSum(RecordsOf(availability, sku, locations),
           [i \in 1..Len(availability) |-> availability[i].OnOrder])

InTransitOf(availability, sku, locations) ==
    SetSum(RecordsOf(availability, sku, locations),
           [i \in 1..Len(availability) |-> availability[i].InTransit])

TotalAvailableOf(availability, sku, locations) ==
    OnHandOf(availability, sku, locations) + OnOrderOf(availability, sku, locations)
    + InTransitOf(availability, sku, locations)

\* Velocity of a SKU in the session's velocity table (numerators over Scale)
VelocityRows(sku) == {i \in 1..Len(sales_velocity_df) : sales_velocity_df[i].SKU = sku}

MonthlyOf(sku) ==
    IF VelocityRows(sku) = {} THEN 0
    ELSE sales_velocity_df[SetMin(VelocityRows(sku))].avg_monthly_sales

DailyOf(sku) ==
    IF VelocityRows(sku) = {} THEN 0
    ELSE sales_velocity_df[SetMin(VelocityRows(sku))].avg_daily_sales

LowerChar(c) ==
    CASE c = "Y" -> "y"
      [] c = "E" -> "e"
      [] c = "S" -> "s"
      [] c = "N" -> "n"
      [] c = "O" -> "o"
      [] c = "A" -> "a"
      [] OTHER -> c

SameIgnoringCase(a, b) ==
    /\ Len(a) = Len(b)
    /\ \A i \in 1..Len(a) : LowerChar(a[i]) = LowerChar(b[i])

\* The SKUs the Inventory List makes eligible
EligibleSet ==
    {astype_str(inventory_df[i].ProductCode) : i \in
        {j \in 1..Len(inventory_df) :
            /\ SameIgnoringCase(inventory_df[j].AssemblyBOM, <<"y", "e", "s">>)
            /\ SameIgnoringCase(inventory_df[j].AutoAssemble, <<"n", "o">>)
            /\ SameIgnoringCase(inventory_df[j].AutoDisassemble, <<"n", "o">>)
            /\ astype_str(inventory_df[j].ProductCode) \notin {"2444", "4300", "3818", "2582"}}}

HasCandidate(wh, sku) == \E i \in 1..Len(replenish_df[wh]) : replenish_df[wh][i].SKU = sku

\* (total_available + on_order) < avg_monthly_sales and avg_daily_sales * 30 > total_available
NeedsCandidate(wh, sku) ==
    LET total_available == TotalAvailableOf(availability_df, sku, WarehouseLocations(wh))
        on_order == OnOrderOf(availability_df, sku, WarehouseLocations(wh))
    IN /\ Scale * (total_available + on_order) < MonthlyOf(sku)
       /\ DailyOf(sku) * 30 > Scale * total_available

AllTablesNonEmpty ==
    /\ Len(bom_df) > 0
    /\ Len(inventory_df) > 0
    /\ Len(availability_df) > 0
    /\ Len(sales_df.rows) > 0

-----------------------------------------------------------------------------
(* Properties *)

\* C1 (as stated): for every eligible SKU, get_replenish_skus emits a candidate row
\* if and only if (total_available + on_order) < avg_monthly_sales and
\* avg_daily_sales * 30 > total_available.
C1_EmitIffNeeded ==
    \A wh \in generated : \A sku \in EligibleSet :
        HasCandidate(wh, sku) <=> NeedsCandidate(wh, sku)

\* C1 (amended): the equivalence holds when none of the four input tables is empty;
\* when one of them has no rows, get_replenish_skus emits no candidate at all.
C1_EmitIffNeededNonEmpty ==
    \A wh \in generated :
        /\ AllTablesNonEmpty =>
              \A sku \in EligibleSet : HasCandidate(wh, sku) <=> NeedsCandidate(wh, sku)
        /\ ~AllTablesNonEmpty => replenish_df[wh] = <<>>

\* An eligible SKU with stock on order got a candidate
C1_Witness ==
    /\ "NC" \in generated
    /\ AllTablesNonEmpty
    /\ \E i \in 1..Len(replenish_df["NC"]) :
          /\ replenish_df["NC"][i].on_order > 0
          /\ replenish_df["NC"][i].SKU \in EligibleSet

\* C2: every candidate row has qty_for_assembly =
\* min(max(2, ceil(avg_monthly_sales - total_available)), max(10, ceil(3 * avg_monthly_sales)), 1000),
\* an integer between 2 and 1000; avg_monthly_sales 10, total_available 5, on_order 0 gives 5.
C2_QuantityFormula ==
    \A wh \in generated : \A i \in 1..Len(replenish_df[wh]) :
        LET row == replenish_df[wh][i]
            total_available ==
                TotalAvailableOf(availability_df, row.SKU, WarehouseLocations(wh))
            monthly == MonthlyOf(row.SKU)
            base == Max2(2, Ceil(monthly - Scale * total_available, Scale))
            reasonable == Max2(10, Ceil(3 * monthly, Scale))
        IN /\ row.qty_for_assembly = Min2(Min2(base, reasonable), 1000)
           /\ row.qty_for_assembly \in 2..1000
           /\ (monthly = 10 * Scale /\ total_available = 5 /\ row.on_order = 0)
                 => row.qty_for_assembly = 5

\* The spec's example row: avg_monthly_sales 10, total_available 5, on_order 0, quantity 5
C2_Witness ==
    /\ "NC" \in generated
    /\ \E i \in 1..Len(replenish_df["NC"]) :
          LET row == replenish_df["NC"][i]
          IN /\ row.avg_monthly_sales = 10 * Scale
             /\ row.available_in_warehouse = 5
             /\ row.on_order = 0
             /\ row.qty_for_assembly = 5

\* The candidates of the same run with the six-month total of sku replaced by total
WithSalesTotal(wh, sku, total) ==
    get_replenish_skus(bom_df, inventory_df, availability_df,
                       calculate_sales_velocity(SalesTable(<<SalesRow(StrSku(sku), total)>>)),
                       wh)

LargerTotals(row) == {t \in SalesTotals : (t * Scale) \div SalesMonths >= row.avg_monthly_sales}

\* C3: with the stock fixed, a larger avg_monthly_sales never gives a smaller
\* qty_for_assembly, and a quantity that reached 1000 stays 1000.
C3_MonotoneInSales ==
    \A wh \in generated : \A i \in 1..Len(replenish_df[wh]) :
        LET row == replenish_df[wh][i]
        IN \A t \in LargerTotals(row) :
              LET larger == WithSalesTotal(wh, row.SKU, t)
              IN \A j \in 1..Len(larger) :
                    larger[j].SKU = row.SKU =>
                        /\ larger[j].qty_for_assembly >= row.qty_for_assembly
                        /\ row.qty_for_assembly = 1000 => larger[j].qty_for_assembly = 1000

\* A candidate at the cap of 1000 whose SKU still has a candidate at a larger velocity
C3_Witness ==
    /\ "NC" \in generated
    /\ \E i \in 1..Len(replenish_df["NC"]) :
          LET row == replenish_df["NC"][i]
          IN /\ row.qty_for_assembly = 1000
             /\ \E t \in LargerTotals(row) :
                   /\ (t * Scale) \div SalesMonths > row.avg_monthly_sales
                   /\ \E j \in 1..Len(WithSalesTotal("NC", row.SKU, t)) :
                         WithSalesTotal("NC", row.SKU, t)[j].SKU = row.SKU

\* C9: every candidate row carries a SKU whose Inventory List row has AssemblyBOM = YES,
\* AutoAssemble = NO, AutoDisassemble = NO (whatever the letter case) and that is not one
\* of 2444, 4300, 3818, 2582; no SKU has two candidate rows in one warehouse run.
C9_OnlyEligibleOnce ==
    \A wh \in generated : \A i \in 1..Len(replenish_df[wh]) :
        /\ replenish_df[wh][i].SKU \in EligibleSet
        /\ replenish_df[wh][i].SKU \notin {"2444", "4300", "3818", "2582"}
        /\ \A j \in 1..Len(replenish_df[wh]) :
              replenish_df[wh][j].SKU = replenish_df[wh][i].SKU => j = i

\* A candidate whose SKU has two Inventory List rows, one with mixed-case flags,
\* next to an excluded SKU whose flags pass
C9_Witness ==
    /\ "NC" \in generated
    /\ Len(replenish_df["NC"]) > 0
    /\ Len(inventory_df) = 2
    /\ inventory_df[1].AssemblyBOM = <<"Y", "e", "s">>
    /\ astype_str(inventory_df[1].ProductCode) = replenish_df["NC"][1].SKU
    /\ astype_str(inventory_df[2].ProductCode) = "2444"
    /\ inventory_df[2].AssemblyBOM = YES
    /\ inventory_df[2].AutoAssemble = NO
    /\ inventory_df[2].AutoDisassemble = NO

\* The BOM rows of an assembly, in table order
EdgesOf(bom, sku) == SelectSeq(bom, LAMBDA b : astype_str(b.Product_SKU) = sku)

RowOrders(n) == {f \in [1..n -> 1..n] : \A i, j \in 1..n : f[i] = f[j] => i = j}

\* C4: an analysed assembly is 'Ready for Production' if and only if every one of its
\* BOM component edges is Ready, and 'Cannot Assemble' otherwise; the status and the
\* counts ready_components and total_components do not depend on the order of the BOM rows.
C4_ReadyIffAllReady ==
    \A wh \in generated :
        LET analysis == assembly_analysis_results[wh]
        IN /\ \A k \in 1..Len(analysis) :
                 LET e == analysis[k]
                     allReady == \A c \in 1..Len(e.components) : e.components[c].status = "Ready"
                 IN /\ e.total_components = Len(EdgesOf(bom_df, e.assembly_sku))
                    /\ e.total_components = Len(e.components)
                    /\ e.ready_components =
                          Cardinality({c \in 1..Len(e.components) :
                                          e.components[c].status = "Ready"})
                    /\ e.assembly_status =
                          IF allReady THEN "Ready for Production" ELSE "Cannot Assemble"
           /\ \A f \in RowOrders(Len(bom_df)) :
                 LET shuffled == [i \in 1..Len(bom_df) |-> bom_df[f[i]]]
                     other == analyze_assembly_status(shuffled, availability_df,
                                                      replenish_df[wh], wh)
                 IN /\ Len(other) = Len(analysis)
                    /\ \A k \in 1..Len(analysis) :
                          /\ other[k].assembly_sku = analysis[k].assembly_sku
                          /\ other[k].assembly_status = analysis[k].assembly_status
                          /\ other[k].ready_components = analysis[k].ready_components
                          /\ other[k].total_components = analysis[k].total_components

\* An assembly whose first component is short and whose last component is ready
C4_Witness ==
    /\ "NC" \in generated
    /\ \E k \in 1..Len(assembly_analysis_results["NC"]) :
          LET e == assembly_analysis_results["NC"][k]
          IN /\ Len(e.components) >= 2
             /\ e.components[1].status = "Shortage"
             /\ e.components[Len(e.components)].status = "Ready"
             /\ e.assembly_status = "Cannot Assemble"

HasBom(sku) == \E i \in 1..Len(bom_df) : astype_str(bom_df[i].Product_SKU) = sku

\* qty of sku can be supplied from stock, or built from components that can be supplied
RECURSIVE Producible(_, _, _, _)
Producible(sku, qty, wh, depth) ==
    LET available == TotalAvailableOf(availability_df, sku, WarehouseLocations(wh))
        edges == EdgesOf(bom_df, sku)
    IN \/ available >= qty
       \/ /\ depth > 0
          /\ Len(edges) > 0
          /\ \A i \in 1..Len(edges) :
                Producible(astype_str(edges[i].Component_SKU),
                           edges[i].Quantity * (qty - available), wh, depth - 1)

\* C5 (as stated): a component that is itself an assembly is checked through its own
\* component edges: it is Ready exactly when the needed quantity can be supplied from
\* its stock or built from its own components.
C5_RecursiveCheck ==
    \A wh \in generated : \A k \in 1..Len(assembly_analysis_results[wh]) :
        LET e == assembly_analysis_results[wh][k]
        IN \A c \in 1..Len(e.components) :
              HasBom(e.components[c].component_sku) =>
                  (e.components[c].status = "Ready"
                      <=> Producible(e.components[c].component_sku,
                                     e.components[c].total_needed, wh, MaxBomRows))

\* The component's own records only
OwnRecords(sku) == SelectSeq(availability_df, LAMBDA r : astype_str(r.SKU) = sku)

\* C5 (amended): the analyzer checks one level of the BOM: a component that is itself an
\* assembly is Ready exactly when its own stock covers the needed quantity, whatever the
\* stock of its own components, and its components are not added to the analysis.
C5_DirectEdgesOnly ==
    \A wh \in generated : \A k \in 1..Len(assembly_analysis_results[wh]) :
        LET e == assembly_analysis_results[wh][k]
        IN /\ Len(e.components) = Len(EdgesOf(bom_df, e.assembly_sku))
           /\ \A c \in 1..Len(e.components) :
                 LET comp == e.components[c]
                     own == TotalAvailableOf(OwnRecords(comp.component_sku),
                                             comp.component_sku, WarehouseLocations(wh))
                 IN HasBom(comp.component_sku) =>
                       /\ comp.component_sku =
                             astype_str(EdgesOf(bom_df, e.assembly_sku)[c].Component_SKU)
                       /\ comp.status = "Ready" <=> own >= comp.total_needed

\* A component that is an assembly is reported short although its own components
\* could be assembled into the missing quantity
C5_Witness ==
    /\ "NC" \in generated
    /\ \E k \in 1..Len(assembly_analysis_results["NC"]) :
          LET e == assembly_analysis_results["NC"][k]
          IN \E c \in 1..Len(e.components) :
                /\ HasBom(e.components[c].component_sku)
                /\ e.components[c].status = "Shortage"
                /\ Producible(e.components[c].component_sku,
                              e.components[c].total_needed, "NC", MaxBomRows)

\* C6: for every BOM component edge of a candidate assembly, total_needed is
\* qty_per_assembly * qty_for_assembly, available is the component's total_available over
\* the warehouse's three locations, status is Ready iff available >= total_needed, and
\* shortage is max(0, total_needed - available), positive exactly when status is Shortage.
C6_ComponentEdge ==
    \A wh \in generated : \A k \in 1..Len(assembly_analysis_results[wh]) :
        LET e == assembly_analysis_results[wh][k]
            edges == EdgesOf(bom_df, e.assembly_sku)
        IN /\ Len(e.components) = Len(edges)
           /\ \E i \in 1..Len(replenish_df[wh]) :
                 /\ replenish_df[wh][i].SKU = e.assembly_sku
                 /\ replenish_df[wh][i].qty_for_assembly = e.qty_for_assembly
           /\ \A c \in 1..Len(e.components) :
                 LET comp == e.components[c]
                 IN /\ comp.component_sku = astype_str(edges[c].Component_SKU)
                    /\ comp.qty_per_assembly = edges[c].Quantity
                    /\ comp.total_needed = edges[c].Quantity * e.qty_for_assembly
                    /\ comp.available =
                          TotalAvailableOf(availability_df, comp.component_sku,
                                           WarehouseLocations(wh))
                    /\ comp.status \in {"Ready", "Shortage"}
                    /\ comp.status = "Ready" <=> comp.available >= comp.total_needed
                    /\ comp.shortage =
                          IF comp.total_needed > comp.available
                          THEN comp.total_needed - comp.available ELSE 0
                    /\ comp.shortage > 0 <=> comp.status = "Shortage"

\* One component has exactly the needed quantity and is Ready, another is short
C6_Witness ==
    /\ "NC" \in generated
    /\ \E k \in 1..Len(assembly_analysis_results["NC"]) :
          LET e == assembly_analysis_results["NC"][k]
          IN /\ \E c \in 1..Len(e.components) :
                   /\ e.components[c].available = e.components[c].total_needed
                   /\ e.components[c].total_needed > 0
                   /\ e.components[c].status = "Ready"
             /\ \E c \in 1..Len(e.components) :
                   /\ e.components[c].shortage > 0
                   /\ e.components[c].available > 0

\* C7: calculate_inventory_position returns on_hand, on_order and in_transit summed over
\* exactly the records whose normalized SKU equals the requested SKU and whose Location is
\* in the location set, total_available is their sum, and adding a record whose Location
\* is not in the set never changes the result.
C7_PositionSums ==
    position /= <<>> =>
        LET sku == position_call.sku
            locations == position_call.locations
            result == position[1]
        IN /\ result.on_hand = OnHandOf(availability_df, sku, locations)
           /\ result.on_order = OnOrderOf(availability_df, sku, locations)
           /\ result.in_transit = InTransitOf(availability_df, sku, locations)
           /\ result.total_available = result.on_hand + result.on_order + result.in_transit
           /\ \A extra \in PositionRows :
                 extra.Location \notin locations =>
                     /\ calculate_inventory_position(Append(availability_df, extra), sku,
                                                     locations) = result
                     /\ calculate_inventory_position(<<extra>> \o availability_df, sku,
                                                     locations) = result

\* A call that counts a record of the SKU and skips another record of the same SKU
\* at a location outside the set
C7_Witness ==
    /\ position /= <<>>
    /\ position[1].total_available > 0
    /\ \E i \in 1..Len(availability_df) :
          /\ astype_str(availability_df[i].SKU) = position_call.sku
          /\ availability_df[i].Location \notin position_call.locations
          /\ availability_df[i].OnHand > 0

RECURSIVE SortedSeq(_)
SortedSeq(S) == IF S = {} THEN <<>> ELSE <<SetMin(S)>> \o SortedSeq(S \ {SetMin(S)})

ComponentSet == {astype_str(bom_df[i].Component_SKU) : i \in 1..Len(bom_df)}

MainOnHand(wh, sku) == OnHandOf(availability_df, sku, {wh \o " - Main"})

\* The Armory records of the warehouse that call for a transfer, in table order
TransferRecords(wh) ==
    SortedSeq({i \in 1..Len(availability_df) :
                  /\ availability_df[i].Location = wh \o " - Armory"
                  /\ availability_df[i].OnHand > 20
                  /\ astype_str(availability_df[i].SKU) \notin ComponentSet
                  /\ MainOnHand(wh, astype_str(availability_df[i].SKU)) < 20})

\* C8: a recommendation is emitted for an Armory record of the warehouse if and only if
\* its on-hand > 20, its SKU is no Component SKU of the BOM and the SKU's Main on-hand
\* is < 20; the quantity is min(armory_on_hand - 20, 20 - main_on_hand), from the Armory
\* to the Main location (Armory 35, Main 5 gives 15); no BOM component is ever recommended.
C8_TransferRule ==
    \A wh \in generated :
        LET recs == transfer_recommendations[wh]
            due == TransferRecords(wh)
        IN /\ Len(recs) = Len(due)
           /\ \A k \in 1..Len(recs) :
                 LET item == availability_df[due[k]]
                     main == MainOnHand(wh, astype_str(item.SKU))
                 IN /\ recs[k].sku = astype_str(item.SKU)
                    /\ recs[k].sku \notin ComponentSet
                    /\ recs[k].available_armory = item.OnHand
                    /\ recs[k].current_main = main
                    /\ recs[k].recommended_transfer =
                          Min2(item.OnHand - 20, 20 - main)
                    /\ recs[k].from_location = wh \o " - Armory"
                    /\ recs[k].to_location = wh \o " - Main"
                    /\ (item.OnHand = 35 /\ main = 5) => recs[k].recommended_transfer = 15

\* The spec's example: one Armory record with 35 on hand, one Main record with 5 on hand
\* of a SKU that is no BOM component, and the single recommendation of 15
C8_Witness ==
    /\ "NC" \in generated
    /\ Len(transfer_recommendations["NC"]) = 1
    /\ transfer_recommendations["NC"][1].available_armory = 35
    /\ transfer_recommendations["NC"][1].current_main = 5
    /\ transfer_recommendations["NC"][1].recommended_transfer = 15
    /\ \E i \in 1..Len(availability_df) :
          /\ availability_df[i].Location = "NC - Main"
          /\ availability_df[i].OnHand = 5

CellOrZero(cell) == IF cell.kind = "num" THEN cell.v ELSE 0

\* C10: calculate_po_quantity sets po_quantity to
\* ceil(max(0, adjusted_velocity * (lead_time + 3) - current_stock - on_order_stock)), missing
\* lead time, stock and on-order counting as 0: a non-negative integer, equal to the value
\* when that is integral and to the next integer above it otherwise.
C10_PoQuantityCeiling ==
    [][(po_stage = "adjusted" /\ po_stage' = "quantity") =>
          /\ Len(df') = Len(df)
          /\ \A i \in 1..Len(df) :
                LET needed == df[i].AdjustedSalesVelocity * (CellOrZero(df[i].Lead_time) + 3)
                              - PoScale * CellOrZero(df[i].TotalStock)
                              - PoScale * CellOrZero(df[i].TotalOnOrder)
                    value == IF needed > 0 THEN needed ELSE 0
                    quantity == df'[i].PO_Quantity
                IN /\ quantity = Ceil(value, PoScale)
                   /\ quantity >= 0
                   /\ value % PoScale = 0 => quantity * PoScale = value
                   /\ value % PoScale /= 0 =>
                         /\ quantity * PoScale > value
                         /\ (quantity - 1) * PoScale < value]_vars

\* A row with a fractional shortfall was rounded up, a missing lead time counted as 0
C10_Witness ==
    /\ po_stage = "quantity"
    /\ \E i \in 1..Len(df) :
          LET value == df[i].TargetStock - PoScale * df[i].TotalStock.v
                       - PoScale * df[i].TotalOnOrder.v
          IN /\ value > 0
             /\ value % PoScale /= 0
             /\ df[i].PO_Quantity * PoScale > value
             /\ df[i].DaysOfStock = 3

\* C11 (as stated): a SKU with zero lead time and zero current stock gets
\* po_quantity = ceil(adjusted_velocity * 3).
C11_ZeroLeadZeroStock ==
    [][(po_stage = "adjusted" /\ po_stage' = "quantity") =>
          \A i \in 1..Len(df) :
              (CellOrZero(df[i].Lead_time) = 0 /\ CellOrZero(df[i].TotalStock) = 0) =>
                  df'[i].PO_Quantity = Ceil(df[i].AdjustedSalesVelocity * 3, PoScale)]_vars

\* C11 (amended): a SKU with zero lead time, zero current stock, no stock on order and a
\* non-negative adjusted velocity gets po_quantity = ceil(adjusted_velocity * 3); stock on
\* order is subtracted before rounding and a negative velocity gives 0.
C11_ZeroLeadZeroStockNoOrder ==
    [][(po_stage = "adjusted" /\ po_stage' = "quantity") =>
          \A i \in 1..Len(df) :
              (CellOrZero(df[i].Lead_time) = 0 /\ CellOrZero(df[i].TotalStock) = 0) =>
                  LET v3 == df[i].AdjustedSalesVelocity * 3
                      on_order == CellOrZero(df[i].TotalOnOrder)
                  IN /\ (on_order = 0 /\ v3 >= 0) => df'[i].PO_Quantity = Ceil(v3, PoScale)
                     /\ v3 < 0 => df'[i].PO_Quantity = 0
                     /\ df'[i].PO_Quantity =
                           Max2(0, Ceil(v3 - PoScale * on_order, PoScale))]_vars

\* A row with lead time 0, no stock, nothing on order and velocity 0.33 per day got 1
C11_Witness ==
    /\ po_stage = "quantity"
    /\ \E i \in 1..Len(df) :
          /\ df[i].DaysOfStock = 3
          /\ df[i].TotalStock.v = 0
          /\ df[i].TotalOnOrder.v = 0
          /\ df[i].AdjustedSalesVelocity = 33
          /\ df[i].PO_Quantity = 1

\* Sign of (margin - k / 100) for the margin TotalProfit / TotalSales of a merged row,
\* the margin being 0 when TotalSales is 0
MarginIsNumber(row) ==
    \/ row.TotalSales.kind = "num" /\ row.TotalSales.v = 0
    \/ row.TotalSales.kind = "num" /\ row.TotalProfit.kind = "num"

Sign(x) == IF x > 0 THEN 1 ELSE IF x < 0 THEN 0 - 1 ELSE 0

MarginAgainst(row, k) ==
    IF row.TotalSales.v = 0 THEN Sign(0 - k)
    ELSE IF row.TotalSales.v > 0 THEN Sign(100 * row.TotalProfit.v - k * row.TotalSales.v)
    ELSE Sign(k * row.TotalSales.v - 100 * row.TotalProfit.v)

\* The brackets of the spec table, in hundredths: low end, whether it is included, high
\* end, whether it is included, adjustment; <<>> is an open end
Bracket(low, low_in, high, high_in, adjustment) ==
    [low |-> low, low_in |-> low_in, high |-> high, high_in |-> high_in,
     adjustment |-> adjustment]

BracketTable(price) ==
    IF price < 100
    THEN {Bracket(<<>>, FALSE, <<10>>, FALSE, 0 - 80), Bracket(<<10>>, TRUE, <<20>>, FALSE, 0 - 50),
          Bracket(<<20>>, TRUE, <<25>>, FALSE, 0 - 20), Bracket(<<26>>, TRUE, <<33>>, TRUE, 0),
          Bracket(<<33>>, FALSE, <<>>, FALSE, 10)}
    ELSE IF price < 250
    THEN {Bracket(<<>>, FALSE, <<10>>, FALSE, 0 - 80), Bracket(<<10>>, TRUE, <<20>>, FALSE, 0 - 50),
          Bracket(<<20>>, TRUE, <<30>>, TRUE, 0), Bracket(<<30>>, FALSE, <<>>, FALSE, 5)}
    ELSE IF price < 750
    THEN {Bracket(<<>>, FALSE, <<5>>, FALSE, 0 - 80), Bracket(<<5>>, TRUE, <<15>>, FALSE, 0 - 50),
          Bracket(<<15>>, TRUE, <<28>>, TRUE, 0), Bracket(<<28>>, FALSE, <<>>, FALSE, 3)}
    ELSE {Bracket(<<>>, FALSE, <<5>>, FALSE, 0 - 90), Bracket(<<5>>, TRUE, <<12>>, FALSE, 0 - 60),
          Bracket(<<12>>, TRUE, <<25>>, TRUE, 0), Bracket(<<25>>, FALSE, <<>>, FALSE, 2)}

InBracket(row, b) ==
    /\ MarginIsNumber(row)
    /\ \/ b.low = <<>>
       \/ MarginAgainst(row, b.low[1]) > 0
       \/ b.low_in /\ MarginAgainst(row, b.low[1]) = 0
    /\ \/ b.high = <<>>
       \/ MarginAgainst(row, b.high[1]) < 0
       \/ b.high_in /\ MarginAgainst(row, b.high[1]) = 0

\* C12: the velocity adjustment is defined for every cost price and profit margin: the
\* bracket value of the price tier's row of the table when the margin lies in a bracket, 0
\* when it lies in no bracket (margin of 0.25 up to but excluding 0.26 under tier 1, or a
\* margin that is no number), and adjusted_velocity = base_velocity * (1 + adjustment).
C12_AdjustmentTable ==
    [][(po_stage = "merged" /\ po_stage' = "csv") =>
          /\ Len(df') = Len(df)
          /\ \A i \in 1..Len(df) :
                LET price == CellOrZero(df[i].Cost_price)
                    hit == {b \in BracketTable(price) : InBracket(df[i], b)}
                    adjustment == df'[i].VelocityAdjustment
                IN /\ \A b \in hit : adjustment = b.adjustment
                   /\ hit = {} => adjustment = 0
                   /\ (price < 100 /\ MarginIsNumber(df[i]) /\ MarginAgainst(df[i], 25) >= 0
                          /\ MarginAgainst(df[i], 26) < 0) => adjustment = 0
                   /\ adjustment \in {0 - 90, 0 - 80, 0 - 60, 0 - 50, 0 - 20, 0, 2, 3, 5, 10}
                   /\ df'[i].AdjustedSalesVelocity * 100 =
                         df[i].Adjusted_sales_velocity_day.v * (100 + adjustment) * PoScale]_vars

\* A SKU under $100 whose margin of 0.255 lies between the brackets was left unadjusted
C12_Witness ==
    /\ po_stage = "csv"
    /\ \E i \in 1..Len(df) :
          /\ df[i].Cost_price.v = 99
          /\ df[i].TotalProfit.v = 255
          /\ df[i].TotalSales.v = 1000
          /\ df[i].VelocityAdjustment = 0
          /\ df[i].AdjustedSalesVelocity = df[i].Adjusted_sales_velocity_day.v * PoScale

\* The rows of the merged table an order line was aggregated from
SourceRows(line) ==
    {i \in 1..Len(df) :
        /\ df[i].LastSuppliedBy = line.SupplierName
        /\ df[i].SKU = line.Product
        /\ df[i].Cost_price.v = line.Price_Amount}

\* C13: the 'Adjusted Monthly Sales' of every purchase-order row is adjusted_velocity * 30
\* of a row it was aggregated from, adjusted_velocity being the margin-adjusted velocity
\* base_velocity * (1 + adjustment).
C13_AdjustedMonthlySales ==
    po_stage = "csv" =>
        \A k \in 1..Len(po_data) :
            \E i \in SourceRows(po_data[k]) :
                /\ po_data[k].Adjusted_Monthly_Sales = df[i].Adjusted_Monthly_Sales
                /\ PoScale * df[i].Adjusted_Monthly_Sales = df[i].AdjustedSalesVelocity * 30

CasePairs == {<<"A", "a">>, <<"B", "b">>, <<"C", "c">>}

SameLetter(x, y) == x = y \/ <<x, y>> \in CasePairs \/ <<y, x>> \in CasePairs

EqualIgnoringCase(a, b) ==
    /\ Len(a) = Len(b)
    /\ \A i \in 1..Len(a) : SameLetter(a[i], b[i])

\* C14: no purchase-order row has a missing supplier, a quantity <= 0, or a supplier name
\* that equals, letter case ignored, an entry of the excluded-supplier list.
C14_FilteredRows ==
    po_stage = "csv" =>
        \A k \in 1..Len(po_data) :
            /\ po_data[k].SupplierName.kind = "text"
            /\ po_data[k].Quantity > 0
            /\ \A e \in 1..Len(excluded_suppliers) :
                  ~EqualIgnoringCase(po_data[k].SupplierName.s, excluded_suppliers[e])

\* An order of one line, made from a table in which supplier 'Ab' had a quantity to order
\* and the list holds 'aB'
C14_Witness ==
    /\ po_stage = "csv"
    /\ Len(po_data) = 1
    /\ Len(excluded_suppliers) > 0
    /\ excluded_suppliers[1] = <<"a", "B">>
    /\ \E i \in 1..Len(df) :
          /\ df[i].LastSuppliedBy = SupplierCell(<<"A", "b">>)
          /\ df[i].PO_Quantity > 0

\* The rows of the merged table that pass the filter
PassingRows ==
    {i \in 1..Len(df) :
        /\ df[i].LastSuppliedBy.kind = "text"
        /\ df[i].PO_Quantity > 0
        /\ \A e \in 1..Len(excluded_suppliers) :
              ~EqualIgnoringCase(df[i].LastSuppliedBy.s, excluded_suppliers[e])}

KeyOf(i) == <<df[i].LastSuppliedBy.s, df[i].SKU, df[i].Cost_price.v>>

\* C15: the purchase order holds exactly one row per distinct (supplier, SKU, unit price)
\* among the rows that passed the filter, its quantity is the sum of the quantities of
\* that group, and the quantities of all rows add up to those of all filtered rows.
C15_OneRowPerGroup ==
    po_stage = "csv" =>
        LET quantity == [i \in 1..Len(df) |-> df[i].PO_Quantity]
            line == [k \in 1..Len(po_data) |-> po_data[k].Quantity]
        IN /\ \A i \in PassingRows :
                 \E k \in 1..Len(po_data) :
                     <<po_data[k].SupplierName.s, po_data[k].Product,
                       po_data[k].Price_Amount>> = KeyOf(i)
           /\ \A k \in 1..Len(po_data) :
                 LET key == <<po_data[k].SupplierName.s, po_data[k].Product,
                              po_data[k].Price_Amount>>
                     group == {i \in PassingRows : KeyOf(i) = key}
                 IN /\ group /= {}
                    /\ po_data[k].Quantity = SetSum(group, quantity)
                    /\ \A j \in 1..Len(po_data) :
                          <<po_data[j].SupplierName.s, po_data[j].Product,
                            po_data[j].Price_Amount>> = key => j = k
           /\ SetSum(1..Len(po_data), line) = SetSum(PassingRows, quantity)

\* Two rows of the same supplier, SKU and price became one line with both quantities
C15_Witness ==
    /\ po_stage = "csv"
    /\ Len(df) = 2
    /\ KeyOf(1) = KeyOf(2)
    /\ Len(po_data) = 1
    /\ po_data[1].Quantity = df[1].PO_Quantity + df[2].PO_Quantity
    /\ df[1].PO_Quantity > 0

\* The profit of a row of the profit table: its cells added up, a missing cell being 0
ProfitOf(row) ==
    SetSum(1..Len(row.vals),
           [i \in 1..Len(row.vals) |-> IF row.vals[i] = <<>> THEN 0 ELSE row.vals[i][1]])

OverallProfit ==
    SetSum(1..Len(profit_df), [i \in 1..Len(profit_df) |-> ProfitOf(profit_df[i])])

\* Cumulative profit of the first k rows of the classification
CumulativeAt(k) ==
    SetSum(1..k, [i \in 1..Len(abc_analysis) |-> abc_analysis[i].total_profit])

\* Sign of (cumulative_profit / overall_profit - k / 10) at row i, for overall_profit /= 0
ShareAgainst(i, k) ==
    IF OverallProfit > 0 THEN Sign(10 * CumulativeAt(i) - k * OverallProfit)
    ELSE Sign(k * OverallProfit - 10 * CumulativeAt(i))

\* C16: calculate_abc_analysis lists every SKU of the profit table with its summed
\* profit, in descending order of profit, and gives a row category A when its cumulative
\* share of the overall profit is <= 0.70, B when it is > 0.70 and <= 0.90, C otherwise;
\* a share of exactly 0.70 is A and one of exactly 0.90 is B.
C16_AbcCategories ==
    generated /= {} =>
        /\ Len(abc_analysis) = Len(profit_df)
        /\ \E order \in RowOrders(Len(profit_df)) :
              \A i \in 1..Len(profit_df) :
                  /\ abc_analysis[i].SKU = astype_str(profit_df[order[i]].SKU)
                  /\ abc_analysis[i].total_profit = ProfitOf(profit_df[order[i]])
        /\ \A i \in 1..Len(abc_analysis) - 1 :
              abc_analysis[i].total_profit >= abc_analysis[i + 1].total_profit
        /\ OverallProfit /= 0 =>
              \A i \in 1..Len(abc_analysis) :
                  /\ abc_analysis[i].abc_category =
                        IF ShareAgainst(i, 7) <= 0 THEN "A"
                        ELSE IF ShareAgainst(i, 9) <= 0 THEN "B"
                        ELSE "C"
                  /\ ShareAgainst(i, 7) = 0 => abc_analysis[i].abc_category = "A"
                  /\ ShareAgainst(i, 9) = 0 => abc_analysis[i].abc_category = "B"

\* Profits 70, 20 and 10: shares of exactly 0.70 and 0.90, categories A, B and C
C16_Witness ==
    /\ generated /= {}
    /\ Len(abc_analysis) = 3
    /\ abc_analysis[1].total_profit = 70
    /\ abc_analysis[2].total_profit = 20
    /\ abc_analysis[3].total_profit = 10
    /\ abc_analysis[1].abc_category = "A"
    /\ abc_analysis[2].abc_category = "B"
    /\ abc_analysis[3].abc_category = "C"

\* The first row whose cumulative share exceeds 0.70
FirstAboveSeventy ==
    {i \in 1..Len(abc_analysis) :
        /\ ShareAgainst(i, 7) > 0
        /\ \A j \in 1..(i - 1) : ShareAgainst(j, 7) <= 0}

\* C17 (as stated): the first row, in descending profit order, whose cumulative share
\* exceeds 0.70 is in category B.
C17_FirstAboveIsB ==
    (generated /= {} /\ OverallProfit /= 0) =>
        \A i \in FirstAboveSeventy : abc_analysis[i].abc_category = "B"

\* C17 (amended): the first row whose cumulative share exceeds 0.70 is in category B
\* when that share is at most 0.90, and in category C when it exceeds 0.90.
C17_FirstAboveIsBUpToNinety ==
    (generated /= {} /\ OverallProfit /= 0) =>
        \A i \in FirstAboveSeventy :
            /\ ShareAgainst(i, 9) <= 0 => abc_analysis[i].abc_category = "B"
            /\ ShareAgainst(i, 9) > 0 => abc_analysis[i].abc_category = "C"

\* Profits 60, 30 and 10: the second row is the first above 0.70 and is B
C17_Witness ==
    /\ generated /= {}
    /\ Len(abc_analysis) = 3
    /\ abc_analysis[1].total_profit = 60
    /\ abc_analysis[2].total_profit = 30
    /\ FirstAboveSeventy = {2}
    /\ abc_analysis[2].abc_category = "B"

\* C18: when the overall profit is 0, the run completes with a classification of every
\* row of the profit table, and every row is in category C.
C18_ZeroOverallProfit ==
    (generated /= {} /\ OverallProfit = 0) =>
        /\ Len(abc_analysis) = Len(profit_df)
        /\ \A i \in 1..Len(abc_analysis) : abc_analysis[i].abc_category = "C"

\* A profit of 10 and a loss of 10 cancel, both rows are C
C18_Witness ==
    /\ generated /= {}
    /\ OverallProfit = 0
    /\ Len(abc_analysis) = 2
    /\ abc_analysis[1].total_profit = 10
    /\ abc_analysis[2].total_profit = 0 - 10
    /\ abc_analysis[1].abc_category = "C"
    /\ abc_analysis[2].abc_category = "C"

-----------------------------------------------------------------------------
(* Sales velocity *)

\* The columns after the SKU column whose header starts with neither word
MonthIndices(columns) ==
    {j \in 1..Len(columns) :
        /\ ~(Len(columns[j]) >= 5 /\ SubSeq(columns[j], 1, 5) = <<"T", "o", "t", "a", "l">>)
        /\ ~(Len(columns[j]) >= 7 /\ SubSeq(columns[j], 1, 7) = AverageHeader)}

\* Total of a row of the velocity tables, whose cells are missing, 7 or 30
MonthTotal(columns, row) ==
    7 * Cardinality({j \in MonthIndices(columns) : row.vals[j] = <<7>>})
    + 30 * Cardinality({j \in MonthIndices(columns) : row.vals[j] = <<30>>})

\* C19: after a run the velocity table has one row per sales row, keyed by the
\* first column, whose avg_monthly_sales is (sum of the cells under the headers
\* not starting with Total or Average, a missing cell counting 0) / 6 and whose
\* avg_daily_sales is that sum / 180, whatever the number of month columns;
\* a sum of 180 gives 1 per day and 30 per month.
C19_SalesVelocity ==
    generated # {} =>
        /\ Len(sales_velocity_df) = Len(sales_df.rows)
        /\ \A i \in 1..Len(sales_df.rows) :
              LET total == MonthTotal(sales_df.columns, sales_df.rows[i])
                  out == sales_velocity_df[i]
              IN /\ out.SKU = astype_str(sales_df.rows[i].SKU)
                 /\ 6 * out.avg_monthly_sales = total * Scale
                 /\ 180 * out.avg_daily_sales = total * Scale
                 /\ total = 180 =>
                        out.avg_daily_sales = Scale /\ out.avg_monthly_sales = 30 * Scale

\* Six months of 30 beside Total and Average cells of 30, and a row with
\* missing cells, have been turned into velocities
C19_Witness ==
    /\ generated # {}
    /\ Len(sales_df.columns) = 8
    /\ \E i, k \in 1..Len(sales_velocity_df) :
          /\ \A j \in 1..8 : sales_df.rows[i].vals[j] = <<30>>
          /\ sales_velocity_df[i].avg_daily_sales = Scale
          /\ sales_df.rows[k].vals[1] = <<>>
          /\ sales_velocity_df[k].avg_monthly_sales > 0

-----------------------------------------------------------------------------
(* Report cache *)

\* C20: the reports held for a warehouse are always those of its most recent
\* run: the ready and cannot-assemble lists of its current assembly analysis
\* and its current transfer recommendations, never those of an earlier run.
C20_ReportsFollowLatestRun ==
    \A wh \in Warehouses :
        report_cache[wh] # <<>> =>
            LET shown == report_cache[wh][1]
                latest == assembly_analysis_results[wh]
            IN /\ shown.ready_assemblies =
                      SelectSeq(latest, LAMBDA a : a.assembly_status = "Ready for Production")
               /\ shown.cannot_assemble_raw =
                      SelectSeq(latest, LAMBDA a : a.assembly_status = "Cannot Assemble")
               /\ shown.transfer_recommendations = transfer_recommendations[wh]

-----------------------------------------------------------------------------
(* Flask service: request isolation *)

OwnPurchaseOrder(r) ==
    purchase_order(merged_table(requests[r].velocity, requests[r].profit))

\* C21: under any interleaving, the files a request saved stay in the upload
\* folder until it has processed them, the purchase order it computes is the
\* one of its own files, and its output file still holds that purchase order
\* when its client downloads it.
C21_IndependentSnapshots ==
    \A r \in Requests :
        /\ requests[r].pc = "saved" =>
               /\ uploads[ReplenishmentFile(requests[r].location)] = <<requests[r].velocity>>
               /\ uploads[SalesFile] = <<requests[r].profit>>
        /\ requests[r].pc \in {"done", "downloaded"} =>
               /\ requests[r].response = "ok"
               /\ requests[r].po = <<OwnPurchaseOrder(r)>>
        /\ requests[r].pc = "done" => outputs[requests[r].location] = <<OwnPurchaseOrder(r)>>
        /\ requests[r].pc = "downloaded" => requests[r].received = <<OwnPurchaseOrder(r)>>

-----------------------------------------------------------------------------
(* Purity of the components *)

InputTables ==
    <<replenishment_df, inventory_df, availability_df, sale_df, cogs_df, profit_df, sales_df>>

\* C22: a run of run_po_generation leaves every input table of the session as
\* it was, the Replenishment Report and the Inventory List included.
C22_InputsUnchanged == [][InputTables' = InputTables]_vars

-----------------------------------------------------------------------------
(* Partial matches of excluded suppliers *)

\* C23: once the purchase order is generated, no line of it belongs to a
\* supplier whose name contains, case-insensitively, an entry of the
\* excluded-supplier list.
C23_PartialMatchExcluded ==
    po_stage = "csv" =>
        \A i \in 1..Len(df), e \in 1..Len(excluded_suppliers) :
            (/\ df[i].LastSuppliedBy.kind = "text"
             /\ contains(str_lower(df[i].LastSuppliedBy.s), str_lower(excluded_suppliers[e])))
            => \A k \in 1..Len(po_data) : po_data[k].SupplierName.s # df[i].LastSuppliedBy.s

-----------------------------------------------------------------------------
(* Upload and generation agree on the names of the sales tables *)

SalesMetricNames == {SalesPrefix \o MetricName(metric) : metric \in Metrics}

\* C24: once the session holds the Availability Report, the BOM Report, the
\* Inventory List and the four metric tables the upload step makes of a sales
\* report, the Assembly Order Generation tab finds no dataset missing and
\* enables 'Generate Assembly Orders'.
C24_GenerationEnabledAfterUpload ==
    ({AvailabilityReportName, BomReportName, InventoryListName} \cup SalesMetricNames
         \subseteq dataframes)
    => /\ missing_files(dataframes) = {}
       /\ processing_enabled(dataframes)

-----------------------------------------------------------------------------
(* Supplier Management buttons *)

\* C25: a 'Clear All' click empties a non-empty list only when the previous
\* click was 'Clear All' too; after any other button the next 'Clear All'
\* click leaves the list as it is and only asks for confirmation.
C25_ClearNeedsImmediateConfirmation ==
    [][(last_click' = "Clear All" /\ last_click # "Clear All")
           => (excluded_suppliers' = excluded_suppliers /\ confirm_clear')]_vars

\* C26: after 'Reset to Defaults' the list is the one a fresh session is given.
C26_ResetRestoresLoadedList ==
    last_click = "Reset to Defaults" => excluded_suppliers = LoadedSuppliers


-----------------------------------------------------------------------------
(* Assembly analysis: joint feasibility *)

ReadyEntries(wh) ==
    SelectSeq(assembly_analysis_results[wh],
              LAMBDA a : a.assembly_status = "Ready for Production")

\* total_needed of every component edge of component sku in the Ready entries
ReadyNeeds(wh, sku) ==
    FlattenSeq(MapSeq(ReadyEntries(wh),
                      LAMBDA a : MapSeq(SelectSeq(a.components,
                                                  LAMBDA c : c.component_sku = sku),
                                        LAMBDA c : c.total_needed)))

-----------------------------------------------------------------------------
(* Replenishment need: stock on order *)

\* total_available < avg_monthly_sales <= total_available + on_order
OnOrderCoversGap(wh, sku) ==
    LET total_available == TotalAvailableOf(availability_df, sku, WarehouseLocations(wh))
        on_order == OnOrderOf(availability_df, sku, WarehouseLocations(wh))
    IN /\ Scale * total_available < MonthlyOf(sku)
       /\ MonthlyOf(sku) <= Scale * (total_available + on_order)

\* C28: the need test counts the quantity on order twice: a candidate is emitted
\* only if on_hand + in_transit + 2 * on_order < avg_monthly_sales, and an eligible
\* SKU with total_available < avg_monthly_sales <= total_available + on_order gets
\* no candidate although its inventory position is below one month of sales.
C28_OnOrderCountedTwice ==
    \A wh \in generated : \A sku \in EligibleSet :
        LET locations == WarehouseLocations(wh)
            on_hand == OnHandOf(availability_df, sku, locations)
            in_transit == InTransitOf(availability_df, sku, locations)
            on_order == OnOrderOf(availability_df, sku, locations)
        IN /\ HasCandidate(wh, sku) =>
                  Scale * (on_hand + in_transit + 2 * on_order) < MonthlyOf(sku)
           /\ OnOrderCoversGap(wh, sku) => ~HasCandidate(wh, sku)

\* An eligible SKU whose stock with the quantity on order counted once is below its
\* monthly sales was left without a candidate, and another run emitted a candidate
C28_Witness ==
    /\ generated = {"NC", "CA"}
    /\ AllTablesNonEmpty
    /\ \E wh \in generated, other \in generated :
          /\ "100" \in EligibleSet
          /\ OnOrderCoversGap(wh, "100")
          /\ OnOrderOf(availability_df, "100", WarehouseLocations(wh)) > 0
          /\ ~HasCandidate(wh, "100")
          /\ HasCandidate(other, "100")


-----------------------------------------------------------------------------
(* Transfers: totals per SKU *)

ArmoryOnHand(wh, sku) == OnHandOf(availability_df, sku, {wh \o " - Armory"})

\* The quantities of all recommendations of the run for the SKU
RecommendedFor(wh, sku) ==
    MapSeq(SelectSeq(transfer_recommendations[wh], LAMBDA t : t.sku = sku),
           LAMBDA t : t.recommended_transfer)

\* C29: for every SKU with recommendations, their total is at least 1 and at most
\* min(armory_on_hand - 20, 20 - main_on_hand), so that applying them all leaves
\* 20 units or more at the Armory and brings Main to 20 at most, also when the
\* availability table has several Armory or Main records of the SKU.
C29_TransferTotals ==
    \A wh \in generated :
        \A k \in 1..Len(transfer_recommendations[wh]) :
            LET sku == transfer_recommendations[wh][k].sku
                total == SumSeq(RecommendedFor(wh, sku))
            IN /\ total >= 1
               /\ total <= Min2(ArmoryOnHand(wh, sku) - TransferThreshold,
                                TransferThreshold - MainOnHand(wh, sku))


-----------------------------------------------------------------------------
(* ABC analysis: the top SKU *)

\* C30 (as stated): whenever the overall profit is positive, the SKU with the highest
\* total_profit, the first row of the classification, is in category A, also when
\* it is the only SKU or contributes more than 70% of the overall profit.
C30_TopSkuIsA ==
    (generated /= {} /\ OverallProfit > 0) => abc_analysis[1].abc_category = "A"

\* C30 (amended): whenever the overall profit is positive, the SKU with the highest
\* total_profit is in category A if and only if its share of the overall profit is at
\* most 0.70; with a share above 0.70 and at most 0.90 it is B, above 0.90 it is C,
\* and the only SKU of a table is C.
C30_TopSkuByShare ==
    (generated /= {} /\ OverallProfit > 0) =>
        /\ abc_analysis[1].abc_category = "A" <=> ShareAgainst(1, 7) <= 0
        /\ abc_analysis[1].abc_category = "B" <=>
               (ShareAgainst(1, 7) > 0 /\ ShareAgainst(1, 9) <= 0)
        /\ abc_analysis[1].abc_category = "C" <=> ShareAgainst(1, 9) > 0
        /\ Len(abc_analysis) = 1 => abc_analysis[1].abc_category = "C"

\* The only SKU of the profit table, with a profit of 30, has been classified C
C30_Witness ==
    /\ generated /= {}
    /\ Len(profit_df) = 1
    /\ Len(abc_analysis) = 1
    /\ abc_analysis[1].total_profit = 30
    /\ OverallProfit = 30
    /\ abc_analysis[1].abc_category = "C"

====
